---- MODULE Spec2Model ----
(***************************************************************************)
(* Slack notifications integration: the webhook delivery client            *)
(* (slack/client.ts), the notification filters (utils/filters.ts) and the  *)
(* event handlers (handlers/*.ts) as one state machine.                    *)
(*                                                                         *)
(* Text is modelled as a sequence of fragments (TLA+ strings) whose        *)
(* concatenation is the text; text the code inspects character by          *)
(* character (URLs, vendor and category names) is a sequence of            *)
(* one-character fragments.  An optional value is a sequence of length 0   *)
(* (undefined) or 1.                                                       *)
(***************************************************************************)
EXTENDS Integers, Sequences, FiniteSets, TLC

VARIABLES
  caller,     \* entry point of this invocation: a handler, or "direct" use of SlackClient
  config,     \* the installation's configuration (ctx.config), read-only
  input,      \* the event that triggered the invocation
  options,    \* SlackClientOptions passed to the constructor ([] for the handlers)
  pc,         \* position of the handler
  document,   \* primary entity fetched (optional)
  company,    \* enrichment entity (optional)
  filterResult, \* result of shouldNotify (optional)
  payload,    \* message built for delivery (optional)
  result,     \* how the invocation completed: pending, returned value, raised error
  client,     \* the SlackClient instance (optional)
  sendPc,     \* position inside SlackClient.sendMessage
  attempt,    \* loop variable of sendMessage
  lastError,  \* lastError of sendMessage
  timers,     \* pending timeout timers of doSendMessage (ids = attempt numbers)
  inflight,   \* number of fetch() requests in flight
  posts,      \* the POSTs completed so far, in order: what came back and what
              \* doSendMessage threw for it (NoError when it returned)
  waits,      \* backoff delays slept so far, in order
  log,        \* pipeline steps executed so far, in order
  peer        \* a second invocation running concurrently, while it is not the one
              \* executing (optional): its own values of the variables above

vars == <<caller, config, input, options, pc, document, company, filterResult, payload,
          result, client, sendPc, attempt, lastError, timers, inflight, posts,
          waits, log, peer>>

handlerVars == <<document, company, filterResult, payload>>
clientVars == <<client, sendPc, attempt, lastError, timers, inflight, posts, waits>>

----------------------------------------------------------------------------
(* Bounds of the model *)

MaxRetries == 3
MaxDocs == 2

----------------------------------------------------------------------------
(* Text helpers *)

None == <<>>
Some(x) == <<x>>
IsSome(o) == Len(o) > 0

UpperChars == {"A","B","C","D","E","F","G","H","I","J","K","L","M",
               "N","O","P","Q","R","S","T","U","V","W","X","Y","Z"}
LowerChars == {"a","b","c","d","e","f","g","h","i","j","k","l","m",
               "n","o","p","q","r","s","t","u","v","w","x","y","z"}
DigitChars == {"0","1","2","3","4","5","6","7","8","9"}

StartsWith(s, p) == Len(s) >= Len(p) /\ SubSeq(s, 1, Len(p)) = p
AllIn(s, C) == \A i \in 1..Len(s) : s[i] \in C

RECURSIVE Pow2(_)
Pow2(k) == IF k <= 0 THEN 1 ELSE 2 * Pow2(k - 1)

UpperSeq == <<"A","B","C","D","E","F","G","H","I","J","K","L","M",
              "N","O","P","Q","R","S","T","U","V","W","X","Y","Z">>
LowerSeq == <<"a","b","c","d","e","f","g","h","i","j","k","l","m",
              "n","o","p","q","r","s","t","u","v","w","x","y","z">>

\* String.prototype.toLowerCase / toUpperCase, character by character
toLowerCase(s) ==
  [i \in 1..Len(s) |->
     IF s[i] \in UpperChars
     THEN LowerSeq[CHOOSE k \in 1..Len(UpperSeq) : UpperSeq[k] = s[i]]
     ELSE s[i]]
toUpperCase(s) ==
  [i \in 1..Len(s) |->
     IF s[i] \in LowerChars
     THEN UpperSeq[CHOOSE k \in 1..Len(LowerSeq) : LowerSeq[k] = s[i]]
     ELSE s[i]]

\* String.prototype.trim
RECURSIVE trimStart(_)
trimStart(s) == IF s # <<>> /\ s[1] = " " THEN trimStart(Tail(s)) ELSE s
RECURSIVE trimEnd(_)
trimEnd(s) ==
  IF s # <<>> /\ s[Len(s)] = " " THEN trimEnd(SubSeq(s, 1, Len(s) - 1)) ELSE s
trim(s) == trimEnd(trimStart(s))

\* Mutant: the empty text is contained in nothing.
includes_NonEmpty(s, part) ==
  /\ part # <<>>
  /\ \E i \in 0..(Len(s) - Len(part)) : SubSeq(s, i + 1, i + Len(part)) = part

\* String.prototype.includes
includes(s, part) ==
  \E i \in 0..(Len(s) - Len(part)) : SubSeq(s, i + 1, i + Len(part)) = part

\* a || b on optional text: the empty string and undefined are both falsy
OrElse(o, dflt) == IF IsSome(o) /\ o[1] # <<>> THEN o[1] ELSE dflt

----------------------------------------------------------------------------
(* slack/client.ts *)

DEFAULT_TIMEOUT == 10000
DEFAULT_RETRIES == 2
DEFAULT_RETRY_DELAY == 1000

DEFAULT_OPTIONS ==
  [timeout |-> DEFAULT_TIMEOUT, retries |-> DEFAULT_RETRIES, retryDelay |-> DEFAULT_RETRY_DELAY]

\* { ...DEFAULT_OPTIONS, ...options }
MergeOptions(opts) ==
  [k \in DOMAIN DEFAULT_OPTIONS |-> IF k \in DOMAIN opts THEN opts[k] ELSE DEFAULT_OPTIONS[k]]

NoError == [name |-> "null"]

SlackApiError(message, statusCode, responseBody) ==
  [name |-> "SlackApiError", message |-> message,
   statusCode |-> statusCode, responseBody |-> responseBody]

SlackWebhookValidationError(message) ==
  [name |-> "SlackWebhookValidationError", message |-> message]

\* "https://hooks.slack.com/services/"
WebhookPrefix ==
  <<"h","t","t","p","s",":","/","/","h","o","o","k","s",".","s","l","a","c","k",
    ".","c","o","m","/","s","e","r","v","i","c","e","s","/">>

\* /^https:\/\/hooks\.slack\.com\/services\/T[A-Z0-9]+\/B[A-Z0-9]+\/[a-zA-Z0-9]+$/
webhookPattern(url) ==
  /\ StartsWith(url, WebhookPrefix)
  /\ LET rest == SubSeq(url, Len(WebhookPrefix) + 1, Len(url))
     IN \E i, j \in 1..Len(rest) :
          /\ i < j
          /\ rest[i] = "/"
          /\ rest[j] = "/"
          /\ LET s1 == SubSeq(rest, 1, i - 1)
                 s2 == SubSeq(rest, i + 1, j - 1)
                 s3 == SubSeq(rest, j + 1, Len(rest))
             IN /\ Len(s1) >= 2 /\ s1[1] = "T"
                /\ AllIn(Tail(s1), UpperChars \cup DigitChars)
                /\ Len(s2) >= 2 /\ s2[1] = "B"
                /\ AllIn(Tail(s2), UpperChars \cup DigitChars)
                /\ Len(s3) >= 1
                /\ AllIn(s3, LowerChars \cup UpperChars \cup DigitChars)

\* Mutant: only the emptiness test, the pattern is not applied.
validateWebhookUrl_NoPattern(url) ==
  IF url = <<>>
  THEN [name |-> "SlackWebhookValidationError", message |-> <<"Webhook URL is required">>]
  ELSE [name |-> "null"]

\* The error validateWebhookUrl throws, NoError when it returns.
validateWebhookUrl(url) ==
  IF url = <<>>
  THEN SlackWebhookValidationError(<<"Webhook URL is required">>)
  ELSE IF ~webhookPattern(url)
  THEN SlackWebhookValidationError(
         <<"Invalid Slack webhook URL format. Expected: https://hooks.slack.com/services/T.../B.../...">>)
  ELSE NoError

\* new SlackClient(webhookUrl, options): the instance, when validation passes.
NewSlackClient(url, opts) == [webhookUrl |-> url, options |-> MergeOptions(opts)]

\* response.ok
ResponseOk(status) == status >= 200 /\ status <= 299

\* Mutant: the body of a 2xx response is not inspected.
ResponseError_StatusOnly(resp) ==
  IF ~(resp.status >= 200 /\ resp.status <= 299)
  THEN [name |-> "SlackApiError",
        message |-> <<"Slack API error: ", ToString(resp.status), " ", resp.statusText>>,
        statusCode |-> resp.status, responseBody |-> resp.body]
  ELSE [name |-> "null"]

\* doSendMessage after `await response.text()`: the error thrown for the
\* response, NoError when the attempt succeeds.
ResponseError(resp) ==
  IF ~ResponseOk(resp.status)
  THEN SlackApiError(<<"Slack API error: ", ToString(resp.status), " ", resp.statusText>>,
                     resp.status, resp.body)
  ELSE IF resp.body # "ok"
  THEN SlackApiError(<<"Slack API error: ", resp.body>>, resp.status, resp.body)
  ELSE NoError

\* doSendMessage's catch block for an error thrown by fetch()/text() itself.
TransportError(failure) ==
  IF failure.name = "AbortError"
  THEN SlackApiError(<<"Request timed out">>, 0, "Timeout")
  ELSE SlackApiError(<<"Network error: ", failure.message>>, 0, "")

\* Mutant: the lower edge of the client-error range is excluded.
IsClientError_Above400(error) ==
  /\ error.name = "SlackApiError"
  /\ error.statusCode > 400
  /\ error.statusCode < 500
  /\ error.statusCode # 429

\* Mutant: every status below 500 other than 429 is rethrown at once.
IsClientError_Below500(error) ==
  /\ error.name = "SlackApiError"
  /\ error.statusCode < 500
  /\ error.statusCode # 429

\* sendMessage's catch block: the error is rethrown at once.
IsClientError(error) ==
  /\ error.name = "SlackApiError"
  /\ error.statusCode >= 400
  /\ error.statusCode < 500
  /\ error.statusCode # 429

\* Mutant: the loop stops one attempt early.
LoopContinues_OffByOne(att, retries) == att < retries

\* sendMessage: the loop test of `for (attempt = 0; attempt <= retries; attempt++)`.
\* Mutant: the loop runs one more time.
LoopContinues_OneMore(att, retries) == att <= retries + 1

LoopContinues(att, retries) == att <= retries

\* sendMessage: a backoff wait follows the failed attempt.
WaitsBeforeRetry(att, retries) == att < retries

\* Mutant: linear instead of exponential backoff.
BackoffDelay_Linear(retryDelay, att) == retryDelay * (att + 1)

\* sendMessage: the backoff delay after failed attempt `att`.
BackoffDelay(retryDelay, att) == retryDelay * Pow2(att)

\* Mutant: the finally block is missing, the timer is never cleared.
clearTimeout_Missing(ts, id) == ts

\* Mutant: all attempts share the timer of the first one.
setTimeout_Shared(ts, id) == ts \cup {0}

\* setTimeout / clearTimeout on the set of pending timers.
setTimeout(ts, id) == ts \cup {id}
clearTimeout(ts, id) == ts \ {id}

----------------------------------------------------------------------------
(* Inputs: what the webhook endpoint and the network can answer *)

Responses ==
  { [status |-> 200, statusText |-> "OK", body |-> "ok"],
    [status |-> 200, statusText |-> "OK", body |-> "invalid_payload"],
    [status |-> 302, statusText |-> "Found", body |-> ""],
    [status |-> 400, statusText |-> "Bad Request", body |-> "invalid_payload"],
    [status |-> 403, statusText |-> "Forbidden", body |-> "invalid_payload"],
    [status |-> 404, statusText |-> "Not Found", body |-> "channel_not_found"],
    [status |-> 410, statusText |-> "Gone", body |-> "channel_not_found"],
    [status |-> 429, statusText |-> "Too Many Requests", body |-> "rate_limited"],
    [status |-> 499, statusText |-> "", body |-> "ok"],
    [status |-> 500, statusText |-> "Internal Server Error", body |-> "ok"],
    [status |-> 503, statusText |-> "Service Unavailable", body |-> ""] }

\* What fetch() rejects with when the connection fails.
NetworkFailures == { [name |-> "TypeError", message |-> "fetch failed"] }

\* What fetch() rejects with when controller.abort() is called.
AbortFailure == [name |-> "AbortError", message |-> "This operation was aborted"]

S_hooks(t, b, x) == WebhookPrefix \o t \o <<"/">> \o b \o <<"/">> \o x

ValidUrls ==
  { S_hooks(<<"T","0","A">>, <<"B","1">>, <<"x","Y","9">>) }

InvalidUrls ==
  { <<>>,
    <<"h","t","t","p",":","/","/","x",".","i","o">>,
    S_hooks(<<"T">>, <<"B","1">>, <<"x">>),
    S_hooks(<<"T","0">>, <<"B","b">>, <<"x">>),
    S_hooks(<<"T","0">>, <<"B","1">>, <<"x","-","y">>),
    WebhookPrefix \o <<"T","0","/","B","1">> }

WebhookUrls == ValidUrls \cup InvalidUrls

\* SlackClientOptions a direct user of the client may pass.
RetryChoices == (-1)..MaxRetries
RetryDelayChoices == {1000, 250}
OptionChoices ==
  {<<>>} \cup
  { [retries |-> r] : r \in RetryChoices } \cup
  { [retries |-> r, retryDelay |-> d] : r \in RetryChoices, d \in RetryDelayChoices }

----------------------------------------------------------------------------
(* SlackClient.sendMessage and doSendMessage as steps *)

TheClient == client[1]
Retries == TheClient.options.retries

\* for (let attempt = 0; attempt <= retries; ...): the loop test, then
\* doSendMessage up to `await fetch(...)`; `throw lastError` when the loop ends.
StartAttempt ==
  /\ sendPc = "loop"
  /\ IF LoopContinues(attempt, Retries)
     THEN /\ timers' = setTimeout(timers, attempt)
          /\ inflight' = inflight + 1
          /\ sendPc' = "request"
     ELSE /\ sendPc' = "threw"
          /\ UNCHANGED <<timers, inflight>>
  /\ UNCHANGED <<peer, caller, config, input, options, pc, handlerVars, result, client,
                 attempt, lastError, posts, waits, log>>

\* The rest of one attempt once doSendMessage has thrown `error` or returned
\* (error = NoError): the finally block, then sendMessage's try/catch.
EndAttempt(answer, error) ==
  /\ timers' = clearTimeout(timers, attempt)
  /\ inflight' = inflight - 1
  /\ posts' = Append(posts, [answer |-> answer, error |-> error])
  /\ IF error = NoError
     THEN /\ sendPc' = "returned"
          /\ UNCHANGED <<lastError, attempt, waits>>
     ELSE /\ lastError' = error
          /\ IF IsClientError(error)
             THEN /\ sendPc' = "threw"
                  /\ UNCHANGED <<attempt, waits>>
             ELSE IF WaitsBeforeRetry(attempt, Retries)
             THEN /\ sendPc' = "sleeping"
                  /\ waits' = Append(waits, BackoffDelay(TheClient.options.retryDelay, attempt))
                  /\ UNCHANGED attempt
             ELSE /\ sendPc' = "loop"
                  /\ attempt' = attempt + 1
                  /\ UNCHANGED waits
  /\ UNCHANGED <<peer, caller, config, input, options, pc, handlerVars, result, client, log>>

\* fetch() resolves and the body is read.
Respond ==
  /\ sendPc = "request"
  /\ \E resp \in Responses : EndAttempt(resp, ResponseError(resp))

\* fetch() rejects with a transport failure.
NetworkFail ==
  /\ sendPc = "request"
  /\ \E f \in NetworkFailures : EndAttempt(f, TransportError(f))

\* The timeout timer fires: controller.abort(), fetch() rejects with AbortError.
TimeoutFires ==
  /\ sendPc = "request"
  /\ attempt \in timers
  /\ EndAttempt(AbortFailure, TransportError(AbortFailure))

\* The backoff sleep ends: attempt++ and back to the loop test.
WakeUp ==
  /\ sendPc = "sleeping"
  /\ sendPc' = "loop"
  /\ attempt' = attempt + 1
  /\ UNCHANGED <<peer, caller, config, input, options, pc, handlerVars, result, client,
                 lastError, timers, inflight, posts, waits, log>>

----------------------------------------------------------------------------
(* types.ts: document helper functions *)

getVendorName(doc) == IF IsSome(doc.supplier) THEN doc.supplier[1].name ELSE None
getCompanyId(doc) == IF IsSome(doc.supplier) THEN doc.supplier[1].id ELSE None
getTotal(doc) == doc.totalAmount
getCurrencyCode(doc) == IF IsSome(doc.currency) THEN doc.currency[1].code ELSE None
getCategoryName(doc) == IF IsSome(doc.category) THEN doc.category[1].name ELSE None
getCategoryId(doc) == IF IsSome(doc.category) THEN doc.category[1].id ELSE None

----------------------------------------------------------------------------
(* utils/filters.ts *)

EUR == <<"E","U","R">>

Pass == [shouldNotify |-> TRUE]
Reject(reason) == [shouldNotify |-> FALSE, reason |-> reason]

\* Mutant: a total equal to the minimum is rejected too.
checkMinimumAmount_Inclusive(doc, cfg) ==
  IF ~("minimumAmount" \in DOMAIN cfg) \/ cfg.minimumAmount <= 0
  THEN [shouldNotify |-> TRUE]
  ELSE LET documentAmount == IF IsSome(getTotal(doc)) THEN getTotal(doc)[1] ELSE 0
           docCur == getCurrencyCode(doc)
           documentCurrency ==
             OrElse(IF IsSome(docCur) THEN Some(toUpperCase(docCur[1])) ELSE None, EUR)
           filterCurrency ==
             OrElse(IF "minimumAmountCurrency" \in DOMAIN cfg
                    THEN Some(toUpperCase(cfg.minimumAmountCurrency)) ELSE None, EUR)
       IN IF documentCurrency = filterCurrency /\ documentAmount <= cfg.minimumAmount
          THEN [shouldNotify |-> FALSE,
                reason |-> <<"amount_below_minimum:", ToString(documentAmount), "<",
                             ToString(cfg.minimumAmount)>>]
          ELSE [shouldNotify |-> TRUE]

checkMinimumAmount(doc, cfg) ==
  IF ~("minimumAmount" \in DOMAIN cfg) \/ cfg.minimumAmount = 0 \/ cfg.minimumAmount <= 0
  THEN Pass
  ELSE LET documentAmount == IF IsSome(getTotal(doc)) THEN getTotal(doc)[1] ELSE 0
           docCur == getCurrencyCode(doc)
           documentCurrency ==
             OrElse(IF IsSome(docCur) THEN Some(toUpperCase(docCur[1])) ELSE None, EUR)
           filterCurrency ==
             OrElse(IF "minimumAmountCurrency" \in DOMAIN cfg
                    THEN Some(toUpperCase(cfg.minimumAmountCurrency)) ELSE None, EUR)
       IN IF documentCurrency # filterCurrency
          THEN Pass
          ELSE IF documentAmount < cfg.minimumAmount
          THEN Reject(<<"amount_below_minimum:", ToString(documentAmount), "<",
                        ToString(cfg.minimumAmount)>>)
          ELSE Pass

\* Mutant: only "the vendor contains the filter entry" counts as a match.
checkVendorFilter_OneWay(doc, cfg) ==
  IF ~("vendorFilter" \in DOMAIN cfg) \/ Len(cfg.vendorFilter) = 0
  THEN [shouldNotify |-> TRUE]
  ELSE IF trim(toLowerCase(OrElse(getVendorName(doc), <<>>))) = <<>>
  THEN [shouldNotify |-> TRUE]
  ELSE IF \E k \in 1..Len(cfg.vendorFilter) :
            includes(trim(toLowerCase(OrElse(getVendorName(doc), <<>>))),
                     trim(toLowerCase(cfg.vendorFilter[k])))
  THEN [shouldNotify |-> TRUE]
  ELSE [shouldNotify |-> FALSE,
        reason |-> <<"vendor_not_in_filter:">> \o getVendorName(doc)[1]]

checkVendorFilter(doc, cfg) ==
  IF ~("vendorFilter" \in DOMAIN cfg) \/ Len(cfg.vendorFilter) = 0
  THEN Pass
  ELSE LET vendorName == getVendorName(doc)
           documentVendor == trim(toLowerCase(OrElse(vendorName, <<>>)))
       IN IF documentVendor = <<>>
          THEN Pass
          ELSE IF \E k \in 1..Len(cfg.vendorFilter) :
                    LET normalizedFilter == trim(toLowerCase(cfg.vendorFilter[k]))
                    IN includes(documentVendor, normalizedFilter)
                       \/ includes(normalizedFilter, documentVendor)
          THEN Pass
          ELSE Reject(<<"vendor_not_in_filter:">> \o vendorName[1])

\* Mutant: the category id is never compared, only the name.
checkCategoryFilter_NameOnly(doc, cfg) ==
  IF ~("categoryFilter" \in DOMAIN cfg) \/ Len(cfg.categoryFilter) = 0
  THEN [shouldNotify |-> TRUE]
  ELSE IF OrElse(getCategoryId(doc), <<>>) = <<>> /\ OrElse(getCategoryName(doc), <<>>) = <<>>
  THEN [shouldNotify |-> TRUE]
  ELSE IF \E k \in 1..Len(cfg.categoryFilter) :
            /\ OrElse(getCategoryName(doc), <<>>) # <<>>
            /\ \/ includes(trim(toLowerCase(getCategoryName(doc)[1])),
                           trim(toLowerCase(cfg.categoryFilter[k])))
               \/ includes(trim(toLowerCase(cfg.categoryFilter[k])),
                           trim(toLowerCase(getCategoryName(doc)[1])))
  THEN [shouldNotify |-> TRUE]
  ELSE [shouldNotify |-> FALSE,
        reason |-> <<"category_not_in_filter:">>
                   \o OrElse(getCategoryName(doc), OrElse(getCategoryId(doc), <<>>))]

checkCategoryFilter(doc, cfg) ==
  IF ~("categoryFilter" \in DOMAIN cfg) \/ Len(cfg.categoryFilter) = 0
  THEN Pass
  ELSE LET categoryId == getCategoryId(doc)
           categoryName == getCategoryName(doc)
           hasId == IsSome(categoryId) /\ categoryId[1] # <<>>
           hasName == IsSome(categoryName) /\ categoryName[1] # <<>>
       IN IF ~hasId /\ ~hasName
          THEN Pass
          ELSE IF \E k \in 1..Len(cfg.categoryFilter) :
                    LET normalizedFilter == trim(toLowerCase(cfg.categoryFilter[k]))
                    IN \/ (IsSome(categoryId) /\ toLowerCase(categoryId[1]) = normalizedFilter)
                       \/ /\ hasName
                          /\ LET normalizedName == trim(toLowerCase(categoryName[1]))
                             IN includes(normalizedName, normalizedFilter)
                                \/ includes(normalizedFilter, normalizedName)
          THEN Pass
          ELSE Reject(<<"category_not_in_filter:">>
                      \o (IF hasName THEN categoryName[1] ELSE categoryId[1]))

\* Mutant: the vendor check is consulted before the amount check.
shouldNotify_VendorFirst(doc, cfg) ==
  IF ~checkVendorFilter(doc, cfg).shouldNotify THEN checkVendorFilter(doc, cfg)
  ELSE IF ~checkMinimumAmount(doc, cfg).shouldNotify THEN checkMinimumAmount(doc, cfg)
  ELSE IF ~checkCategoryFilter(doc, cfg).shouldNotify THEN checkCategoryFilter(doc, cfg)
  ELSE [shouldNotify |-> TRUE]

shouldNotify(doc, cfg) ==
  LET minimumAmountResult == checkMinimumAmount(doc, cfg)
      vendorResult == checkVendorFilter(doc, cfg)
      categoryResult == checkCategoryFilter(doc, cfg)
  IN IF ~minimumAmountResult.shouldNotify THEN minimumAmountResult
     ELSE IF ~vendorResult.shouldNotify THEN vendorResult
     ELSE IF ~categoryResult.shouldNotify THEN categoryResult
     ELSE Pass

\* Mutant: every toggle defaults to off.
ToggleDefaults_AllOff ==
  [notifyOnDocumentCreated |-> FALSE,
   notifyOnDocumentProcessed |-> FALSE,
   notifyOnDocumentUpdated |-> FALSE,
   notifyOnExportCompleted |-> FALSE,
   enableDailySummary |-> FALSE]

ToggleDefaults ==
  [notifyOnDocumentCreated |-> FALSE,
   notifyOnDocumentProcessed |-> TRUE,
   notifyOnDocumentUpdated |-> FALSE,
   notifyOnExportCompleted |-> TRUE,
   enableDailySummary |-> FALSE]

isNotificationEnabled(notificationType, cfg) ==
  IF notificationType \in DOMAIN cfg
  THEN cfg[notificationType]
  ELSE IF notificationType \in DOMAIN ToggleDefaults
  THEN ToggleDefaults[notificationType]
  ELSE FALSE

----------------------------------------------------------------------------
(* handlers/dailySummary.ts: calculateStats *)

RECURSIVE DigitsValue(_)
DigitsValue(k) ==
  IF k = <<>> THEN 0
  ELSE 10 * DigitsValue(SubSeq(k, 1, Len(k) - 1))
       + (CHOOSE d \in 0..9 : ToString(d) = k[Len(k)])

\* A property key that JavaScript treats as an array index: such keys are
\* enumerated first, in ascending numeric order.
IsIndexKey(k) ==
  /\ k # <<>>
  /\ AllIn(k, DigitChars)
  /\ (Len(k) = 1 \/ k[1] # "0")
  /\ Len(k) <= 9

RECURSIVE FirstSeen(_, _)
FirstSeen(keys, seen) ==
  IF keys = <<>> THEN seen
  ELSE FirstSeen(Tail(keys),
                 IF \E i \in 1..Len(seen) : seen[i] = keys[1]
                 THEN seen ELSE Append(seen, keys[1]))

\* Object.entries(record) key order for keys inserted in the order `keys`
ObjectKeys(keys) ==
  LET ins == FirstSeen(keys, <<>>)
      idx == SelectSeq(ins, IsIndexKey)
      str == SelectSeq(ins, LAMBDA k : ~IsIndexKey(k))
  IN SortSeq(idx, LAMBDA a, b : DigitsValue(a) < DigitsValue(b)) \o str

CountOf(keys, k) == Cardinality({i \in 1..Len(keys) : keys[i] = k})

\* Mutant: a later entry with the same count replaces the earlier one.
RECURSIVE MaxEntry_LastWins(_, _, _, _)
MaxEntry_LastWins(order, counts, top, max) ==
  IF order = <<>> THEN [key |-> top, count |-> max]
  ELSE IF CountOf(counts, order[1]) >= max
  THEN MaxEntry_LastWins(Tail(order), counts, Some(order[1]), CountOf(counts, order[1]))
  ELSE MaxEntry_LastWins(Tail(order), counts, top, max)

\* for (const [key, count] of entries) if (count > max) { max = count; top = key }
RECURSIVE MaxEntry(_, _, _, _)
MaxEntry(order, counts, top, max) ==
  IF order = <<>> THEN [key |-> top, count |-> max]
  ELSE IF CountOf(counts, order[1]) > max
  THEN MaxEntry(Tail(order), counts, Some(order[1]), CountOf(counts, order[1]))
  ELSE MaxEntry(Tail(order), counts, top, max)

RECURSIVE SumTotals(_, _)
SumTotals(docs, currency) ==
  IF docs = <<>> THEN 0
  ELSE (IF OrElse(getCurrencyCode(docs[1]), EUR) = currency
        THEN (IF IsSome(getTotal(docs[1])) THEN getTotal(docs[1])[1] ELSE 0)
        ELSE 0)
       + SumTotals(Tail(docs), currency)

calculateStats(docs) ==
  LET currencies == [i \in 1..Len(docs) |-> OrElse(getCurrencyCode(docs[i]), EUR)]
      primary == MaxEntry(ObjectKeys(currencies), currencies, Some(EUR), 0)
      withVendor == SelectSeq(docs, LAMBDA d : OrElse(getVendorName(d), <<>>) # <<>>)
      vendors == [i \in 1..Len(withVendor) |-> getVendorName(withVendor[i])[1]]
      top == MaxEntry(ObjectKeys(vendors), vendors, None, 0)
      categories == [i \in 1..Len(docs) |->
                       OrElse(getCategoryName(docs[i]),
                              <<"U","n","c","a","t","e","g","o","r","i","z","e","d">>)]
  IN [processedCount |-> Len(docs),
      totalAmount |-> SumTotals(docs, primary.key[1]),
      currency |-> primary.key[1],
      pendingCount |-> Len(SelectSeq(docs, LAMBDA d : ~d.approved /\ d.processed)),
      topVendor |-> top.key,
      topVendorCount |-> top.count,
      categoryBreakdown |->
        [i \in 1..Len(ObjectKeys(categories)) |->
           <<ObjectKeys(categories)[i], CountOf(categories, ObjectKeys(categories)[i])>>]]

----------------------------------------------------------------------------
(* Inputs of the handlers: events, configurations, collaborator answers *)

DocumentHandlers == {"documentCreated", "documentProcessed", "documentUpdated"}
EventHandlers == DocumentHandlers \cup {"exportCompleted", "dailySummary"}
Handlers == EventHandlers \cup {"testConnection"}

Acme == <<"A","c","m","e">>
AcmeCorp == <<"A","c","m","e"," ","C","o","r","p">>
Bolt == <<"B","o","l","t">>
Travel == <<"T","r","a","v","e","l">>
USD == <<"U","S","D">>

DocAcme ==
  [id |-> "doc-1", supplier |-> Some([id |-> Some("co-1"), name |-> Some(AcmeCorp)]),
   companyId |-> Some("co-1"), vendorName |-> Some(AcmeCorp), total |-> Some(150),
   totalAmount |-> Some(150),
   currency |-> Some([code |-> Some(<<"e","u","r">>)]),
   category |-> Some([id |-> Some(<<"c","1">>), name |-> Some(Travel)]),
   approved |-> FALSE, processed |-> TRUE]
DocBolt ==
  [id |-> "doc-2", supplier |-> Some([id |-> Some("co-2"), name |-> Some(Bolt)]),
   companyId |-> None, vendorName |-> Some(Bolt), total |-> Some(50),
   totalAmount |-> Some(50),
   currency |-> Some([code |-> Some(EUR)]),
   category |-> None, approved |-> TRUE, processed |-> TRUE]
DocBare ==
  [id |-> "doc-3", supplier |-> None, companyId |-> None, vendorName |-> None,
   total |-> None, totalAmount |-> None,
   currency |-> None, category |-> None, approved |-> FALSE, processed |-> FALSE]
DocUsd ==
  [id |-> "doc-4", supplier |-> Some([id |-> None, name |-> Some(Acme)]),
   companyId |-> Some("co-1"), vendorName |-> Some(Acme), total |-> Some(30),
   totalAmount |-> Some(30),
   currency |-> Some([code |-> Some(USD)]),
   category |-> Some([id |-> Some(<<"c","2">>), name |-> None]),
   approved |-> FALSE, processed |-> TRUE]

Documents == {DocAcme, DocBolt, DocBare, DocUsd}

\* listDocuments answers: collections of at most MaxDocs documents
SummaryDocuments == {DocAcme, DocBolt, DocUsd}
DocumentLists == UNION { [1..n -> SummaryDocuments] : n \in 0..MaxDocs }

Companies == { [id |-> "co-1", name |-> "Acme Holding"] }
\* companies.items of a listCompanies answer
CompanyLists == { <<>> } \cup { <<c>> : c \in Companies }

Exports ==
  { [id |-> "exp-1", spaceId |-> "space-1", format |-> <<"c","s","v">>,
     status |-> "COMPLETED", documentCount |-> 12,
     downloadUrl |-> Some("https://files/exp-1"),
     createdAt |-> "t0", completedAt |-> Some("t1")],
    [id |-> "exp-1", spaceId |-> "space-1", format |-> <<"p","d","f">>,
     status |-> "COMPLETED", documentCount |-> 0,
     downloadUrl |-> None, createdAt |-> "t0", completedAt |-> None] }

\* export.completed events: format and documentCount as sent by the host
ExportInputs ==
  { [exportId |-> "exp-1", format |-> Some(<<"c","s","v">>), documentCount |-> Some(12)],
    [exportId |-> "exp-1", format |-> Some(<<>>), documentCount |-> Some(0)] }

\* What a failing collaborator call rejects with.
FetchErrors == { [name |-> "Error", message |-> <<"service unavailable">>] }

ToggleConfigs ==
  { <<>>,
    [notifyOnDocumentCreated |-> TRUE, notifyOnDocumentProcessed |-> TRUE,
     notifyOnDocumentUpdated |-> TRUE, notifyOnExportCompleted |-> TRUE,
     enableDailySummary |-> TRUE],
    [notifyOnDocumentCreated |-> FALSE, notifyOnDocumentProcessed |-> FALSE,
     notifyOnDocumentUpdated |-> FALSE, notifyOnExportCompleted |-> FALSE,
     enableDailySummary |-> FALSE] }

FilterConfigs ==
  { <<>>,
    [minimumAmount |-> 100, minimumAmountCurrency |-> <<"e","u","r">>,
     vendorFilter |-> <<>>, categoryFilter |-> <<>>],
    [minimumAmount |-> 0, vendorFilter |-> << <<" ","A","C","M","E"," ">> >>,
     categoryFilter |-> << <<"C","1">> >>],
    [minimumAmount |-> 40, vendorFilter |-> << Bolt >>] }

Merge(a, b) ==
  [k \in DOMAIN a \cup DOMAIN b |-> IF k \in DOMAIN b THEN b[k] ELSE a[k]]

\* Filters only matter to the document handlers.
ConfigsOf(h) ==
  { Merge(Merge([webhookUrl |-> u], t), f) :
      u \in WebhookUrls,
      t \in IF h \in EventHandlers THEN ToggleConfigs ELSE {<<>>},
      f \in IF h \in DocumentHandlers THEN FilterConfigs ELSE {<<>>} }


InputsOf(h) ==
  IF h \in DocumentHandlers THEN { [documentId |-> "doc-1", spaceId |-> "space-1"] }
  ELSE IF h = "exportCompleted" THEN { Merge(i, [spaceId |-> "space-1"]) : i \in ExportInputs }
  ELSE IF h = "dailySummary" THEN { [spaceId |-> "space-1", scheduledAt |-> "t0"] }
  ELSE { [spaceId |-> "space-1"] }

----------------------------------------------------------------------------
(* handlers/*.ts: results and control flow *)

Pending == [kind |-> "pending"]
Returned(value) == [kind |-> "returned", value |-> value]
Raised(error) == [kind |-> "raised", error |-> error]

ToggleOf(h) ==
  CASE h = "documentCreated" -> "notifyOnDocumentCreated"
    [] h = "documentProcessed" -> "notifyOnDocumentProcessed"
    [] h = "documentUpdated" -> "notifyOnDocumentUpdated"
    [] h = "exportCompleted" -> "notifyOnExportCompleted"
    [] h = "dailySummary" -> "enableDailySummary"

\* The result returned when the toggle is off.
DisabledResult(h) ==
  [success |-> TRUE, skipped |-> TRUE,
   reason |-> IF h = "dailySummary" THEN <<"daily_summary_disabled">>
              ELSE <<"notification_type_disabled">>]

\* Mutant: the toggle is ignored.
AfterEnabled_Ignored(h, enabled) == "fetch"

\* Where the handler goes after the enablement check.
AfterEnabled(h, enabled) == IF enabled THEN "fetch" ELSE "done"

\* The primary fetch sits in a try block whose catch returns a result.
FetchCaught(h) == h \in EventHandlers

\* The result returned by the catch block of the primary fetch.
FetchFailureResult(h, error) ==
  [success |-> FALSE,
   error |-> (IF h = "dailySummary" THEN <<"Failed to fetch documents: ">>
                                    ELSE <<"Failed to fetch document: ">>) \o error.message]

\* Mutant: a failed primary fetch is tried again.
AfterFetch_Retry(h, ok) ==
  IF h \in DocumentHandlers THEN (IF ok THEN "filter" ELSE "fetch")
  ELSE IF h = "exportCompleted" THEN "build"
  ELSE (IF ok THEN "build" ELSE "fetch")

\* Where the handler goes after the primary fetch (export: getExport).
AfterFetch(h, ok) ==
  IF h \in DocumentHandlers THEN (IF ok THEN "filter" ELSE "done")
  ELSE IF h = "exportCompleted" THEN "build"
  ELSE (IF ok THEN "build" ELSE "done")

\* Mutant: the fallback record takes the event's format as it is.
FallbackExport_RawFormat(inp) ==
  [id |-> inp.exportId, spaceId |-> inp.spaceId,
   format |-> IF IsSome(inp.format) THEN inp.format[1] ELSE <<>>,
   status |-> "COMPLETED",
   documentCount |-> IF IsSome(inp.documentCount) THEN inp.documentCount[1] ELSE 0,
   downloadUrl |-> None,
   createdAt |-> "now", completedAt |-> Some("now")]

\* The minimal export built from the event when getExport fails.
FallbackExport(inp) ==
  [id |-> inp.exportId, spaceId |-> inp.spaceId,
   format |-> OrElse(inp.format, <<"u","n","k","n","o","w","n">>),
   status |-> "COMPLETED",
   documentCount |-> IF IsSome(inp.documentCount) THEN inp.documentCount[1] ELSE 0,
   downloadUrl |-> None,
   createdAt |-> "now", completedAt |-> Some("now")]

\* documentProcessed.ts reads the company id through getCompanyId, the other two
\* document handlers read document.companyId.
CompanyIdOf(h, doc) == IF h = "documentProcessed" THEN getCompanyId(doc) ELSE doc.companyId

\* if (id) on an optional identifier
TruthyId(o) == IsSome(o) /\ o[1] # ""

\* x || undefined
Truthy(o) == IF IsSome(o) /\ o[1] # <<>> THEN o ELSE None

\* The result returned when shouldNotify rejects the document.
FilteredResult(h, doc, fr) ==
  IF h = "documentProcessed"
  THEN [success |-> TRUE, skipped |-> TRUE, reason |-> fr.reason,
        documentId |-> doc.id, vendorName |-> Truthy(getVendorName(doc)),
        amount |-> getTotal(doc)]
  ELSE [success |-> TRUE, skipped |-> TRUE, reason |-> fr.reason]

\* Mutant: the filter result is computed but not acted on.
AfterFilter_Ignored(h, notify) == "enrich"

\* Where the handler goes after the filters.
AfterFilter(h, notify) == IF notify THEN "enrich" ELSE "done"

\* Mutant: documentProcessed fetches the company outside any try block.
EnrichCaught_ProcessedUnguarded(h) == h \in {"documentCreated", "documentUpdated"}

\* The enrichment fetch sits in a try block whose catch only logs.
EnrichCaught(h) == h \in DocumentHandlers

\* Mutant: the no-activity result lacks the skipped flag.
NoActivityResult_Unflagged == [success |-> TRUE, reason |-> <<"no_activity">>]

\* The result returned when documents.length === 0.
NoActivityResult == [success |-> TRUE, skipped |-> TRUE, reason |-> <<"no_activity">>]

\* Mutant: the empty collection is not special-cased.
AfterSummaryCheck_Ignored(n) == "build"

\* Where the daily handler goes once it has the collection.
AfterSummaryCheck(n) == IF n = 0 THEN "done" ELSE "build"

\* Mutant: the export handler delivers outside any try block.
DeliveryCaught_ExportUnguarded(h) ==
  h \in {"documentCreated", "documentProcessed", "documentUpdated", "dailySummary",
         "testConnection"}

\* new SlackClient(...) and sendMessage sit in a try block whose catch returns a result.
DeliveryCaught(h) == h \in Handlers

\* The result returned after sendMessage has returned.
DeliverySuccessResult(h, doc, pl) ==
  CASE h = "documentCreated" ->
         [success |-> TRUE, documentId |-> doc.id, vendorName |-> Truthy(doc.vendorName)]
    [] h = "documentProcessed" ->
         [success |-> TRUE, documentId |-> doc.id,
          vendorName |-> Truthy(getVendorName(doc)), amount |-> getTotal(doc)]
    [] h = "documentUpdated" ->
         [success |-> TRUE, documentId |-> doc.id,
          vendorName |-> Truthy(doc.vendorName), amount |-> doc.total]
    [] h = "exportCompleted" ->
         [success |-> TRUE, exportId |-> doc.id, format |-> doc.format,
          documentCount |-> doc.documentCount]
    [] h = "dailySummary" -> [success |-> TRUE, stats |-> pl.stats]
    [] h = "testConnection" ->
         [success |-> TRUE,
          message |-> <<"Test message sent successfully! Check your Slack channel.">>]

\* Mutant: only the HTTP status is translated.
UserMessage_StatusOnly(error) ==
  IF error.statusCode = 404
  THEN <<"Webhook URL not found. Please verify your Slack webhook URL is correct.">>
  ELSE IF error.statusCode = 403
  THEN <<"Access denied. The webhook may have been revoked. Please create a new webhook.">>
  ELSE <<"Failed to send message to Slack.">>

\* Mutant: the response body is looked at before the HTTP status.
UserMessage_BodyFirst(error) ==
  IF error.responseBody = "channel_not_found"
  THEN <<"Channel not found. Please verify the channel exists and the webhook has access.">>
  ELSE IF error.responseBody = "invalid_payload"
  THEN <<"Invalid message format. Please contact support.">>
  ELSE IF error.statusCode = 404
  THEN <<"Webhook URL not found. Please verify your Slack webhook URL is correct.">>
  ELSE IF error.statusCode = 403
  THEN <<"Access denied. The webhook may have been revoked. Please create a new webhook.">>
  ELSE <<"Failed to send message to Slack.">>

\* testConnection.ts: the user-facing text for a SlackApiError
UserMessage(error) ==
  IF error.statusCode = 404
  THEN <<"Webhook URL not found. Please verify your Slack webhook URL is correct.">>
  ELSE IF error.statusCode = 403
  THEN <<"Access denied. The webhook may have been revoked. Please create a new webhook.">>
  ELSE IF error.responseBody = "channel_not_found"
  THEN <<"Channel not found. Please verify the channel exists and the webhook has access.">>
  ELSE IF error.responseBody = "invalid_payload"
  THEN <<"Invalid message format. Please contact support.">>
  ELSE <<"Failed to send message to Slack.">>

\* Mutant: the catch block around the delivery drops the identifier.
DeliveryFailureResult_NoId(h, error, doc, inp) ==
  [success |-> FALSE,
   error |-> <<"Failed to send Slack notification: ">> \o error.message]

\* The result returned by the catch block around the delivery.
DeliveryFailureResult(h, error, doc, inp) ==
  CASE h \in DocumentHandlers ->
         [success |-> FALSE,
          error |-> <<"Failed to send Slack notification: ">> \o error.message,
          documentId |-> doc.id]
    [] h = "exportCompleted" ->
         [success |-> FALSE,
          error |-> <<"Failed to send Slack notification: ">> \o error.message,
          exportId |-> inp.exportId]
    [] h = "dailySummary" ->
         [success |-> FALSE,
          error |-> <<"Failed to send Slack notification: ">> \o error.message]
    [] h = "testConnection" ->
         IF error.name = "SlackWebhookValidationError"
         THEN [success |-> FALSE, error |-> <<"Invalid webhook URL: ">> \o error.message]
         ELSE IF error.name = "SlackApiError"
         THEN [success |-> FALSE, error |-> UserMessage(error)]
         ELSE [success |-> FALSE,
               error |-> <<"Failed to send test message: ">> \o error.message]

\* How the invocation continues when the delivery throws `error`: the catch
\* block returns a result; reading error.message of a thrown null raises a
\* TypeError inside the catch block; without a try the error escapes.
OnDeliveryError(h, error, doc, inp) ==
  IF ~DeliveryCaught(h) THEN Raised(error)
  ELSE IF error = NoError
  THEN Raised([name |-> "TypeError", message |-> <<"Cannot read properties of null">>])
  ELSE Returned(DeliveryFailureResult(h, error, doc, inp))


\* The message handed to sendMessage: fallback text, blocks, status colour.
BuildMessage(h, doc, comp, inp) ==
  CASE h = "documentCreated" ->
         [text |-> [template |-> "New invoice uploaded", vendor |-> Truthy(doc.vendorName)],
          blocks |-> [builder |-> "buildDocumentCreatedBlocks", id |-> doc.id, company |-> comp],
          status |-> "info"]
    [] h = "documentProcessed" ->
         [text |-> [template |-> "Invoice processed", vendor |-> Truthy(getVendorName(doc)),
                    amount |-> getTotal(doc), currency |-> getCurrencyCode(doc)],
          blocks |-> [builder |-> "buildDocumentProcessedBlocks", id |-> doc.id, company |-> comp],
          status |-> "success"]
    [] h = "documentUpdated" ->
         [text |-> [template |-> "Invoice updated", vendor |-> Truthy(doc.vendorName),
                    amount |-> doc.total],
          blocks |-> [builder |-> "buildDocumentUpdatedBlocks", id |-> doc.id, company |-> comp],
          status |-> "info"]
    [] h = "exportCompleted" ->
         [text |-> [template |-> "Export ready", documentCount |-> doc.documentCount,
                    format |-> toUpperCase(doc.format)],
          blocks |-> [builder |-> "buildExportCompletedBlocks", id |-> doc.id,
                      downloadUrl |-> doc.downloadUrl],
          status |-> "success"]
    [] h = "dailySummary" ->
         [text |-> [template |-> "Daily Summary"],
          stats |-> calculateStats(doc),
          blocks |-> [builder |-> "buildDailySummaryBlocks"],
          status |-> "info"]
    [] h = "testConnection" ->
         [text |-> [template |-> "InvoiceLeaf Slack integration connected successfully!"],
          blocks |-> [builder |-> "buildTestConnectionBlocks", spaceId |-> inp.spaceId],
          status |-> "success"]

----------------------------------------------------------------------------
(* The handlers as steps *)

Init ==
  /\ caller \in Handlers \cup {"direct"}
  /\ config \in ConfigsOf(caller)
  /\ input \in InputsOf(caller)
  /\ options \in IF caller = "direct" THEN OptionChoices ELSE {<<>>}
  /\ pc = IF caller = "direct" THEN "deliver" ELSE "start"
  /\ document = None
  /\ company = None
  /\ filterResult = None
  /\ payload = None
  /\ result = Pending
  /\ client = None
  /\ sendPc = "idle"
  /\ attempt = 0
  /\ lastError = NoError
  /\ timers = {}
  /\ inflight = 0
  /\ posts = <<>>
  /\ waits = <<>>
  /\ log = <<>>
  /\ peer = None

\* if (!isNotificationEnabled(kind, config)) return { skipped ... }
CheckEnabled ==
  /\ pc = "start"
  /\ caller \in EventHandlers
  /\ LET next == AfterEnabled(caller, isNotificationEnabled(ToggleOf(caller), config))
     IN /\ pc' = next
        /\ result' = IF next = "done" THEN Returned(DisabledResult(caller)) ELSE result
  /\ log' = Append(log, "isNotificationEnabled")
  /\ UNCHANGED <<peer, caller, config, input, options, handlerVars, clientVars>>

\* testConnection: if (!config.webhookUrl) return { success: false ... }
CheckConfigured ==
  /\ pc = "start"
  /\ caller = "testConnection"
  /\ IF config.webhookUrl = <<>>
     THEN /\ pc' = "done"
          /\ result' = Returned(
               [success |-> FALSE,
                error |-> <<"Slack webhook URL is not configured. Please add your webhook URL in the integration settings.">>])
     ELSE /\ pc' = "build"
          /\ UNCHANGED result
  /\ UNCHANGED <<peer, caller, config, input, options, handlerVars, clientVars, log>>

\* The primary fetch fails (getDocument or listDocuments rejects).
FetchFails(call) ==
  \E e \in FetchErrors :
    /\ log' = Append(log, call)
    /\ IF FetchCaught(caller)
       THEN LET next == AfterFetch(caller, FALSE)
            IN /\ pc' = next
               /\ result' = IF next = "done"
                            THEN Returned(FetchFailureResult(caller, e)) ELSE result
       ELSE /\ pc' = "done"
            /\ result' = Raised(e)
    /\ UNCHANGED document

\* document = await data.getDocument(documentId)
FetchDocument ==
  /\ pc = "fetch"
  /\ caller \in DocumentHandlers
  /\ \/ \E d \in Documents :
          /\ document' = Some(d)
          /\ pc' = AfterFetch(caller, TRUE)
          /\ log' = Append(log, "getDocument")
          /\ UNCHANGED result
     \/ FetchFails("getDocument")
  /\ UNCHANGED <<peer, caller, config, input, options, company, filterResult, payload, clientVars>>

\* documents = (await data.listDocuments(...)).items, then the empty check
FetchDocuments ==
  /\ pc = "fetch"
  /\ caller = "dailySummary"
  /\ \/ \E ds \in DocumentLists :
          LET next == AfterSummaryCheck(Len(ds))
          IN /\ document' = Some(ds)
             /\ pc' = next
             /\ result' = IF next = "done" THEN Returned(NoActivityResult) ELSE result
             /\ log' = Append(log, "listDocuments")
     \/ FetchFails("listDocuments")
  /\ UNCHANGED <<peer, caller, config, input, options, company, filterResult, payload, clientVars>>

\* exportData = await data.getExport(exportId), or, after logger.warn (the step
\* "warn"), the fallback record
FetchExport ==
  /\ pc = "fetch"
  /\ caller = "exportCompleted"
  /\ \/ \E x \in Exports :
          /\ document' = Some(x)
          /\ pc' = AfterFetch(caller, TRUE)
          /\ log' = Append(log, "getExport")
     \/ \E e \in FetchErrors :
          /\ document' = Some(FallbackExport(input))
          /\ pc' = AfterFetch(caller, FALSE)
          /\ log' = log \o <<"getExport", "warn">>
  /\ UNCHANGED <<peer, caller, config, input, options, company, filterResult, payload, result,
                 clientVars>>

\* const filterResult = shouldNotify(document, config)
ApplyFilters ==
  /\ pc = "filter"
  /\ LET fr == shouldNotify(document[1], config)
         next == AfterFilter(caller, fr.shouldNotify)
     IN /\ filterResult' = Some(fr)
        /\ pc' = next
        /\ result' = IF next = "done"
                     THEN Returned(FilteredResult(caller, document[1], fr)) ELSE result
  /\ log' = Append(log, "shouldNotify")
  /\ UNCHANGED <<peer, caller, config, input, options, document, company, payload, clientVars>>

\* if (companyId) { try { companies = await data.listCompanies(...) } catch { warn } }
\* The catch block's logger.warn is recorded as the step "warn".
Enrich ==
  /\ pc = "enrich"
  /\ IF ~TruthyId(CompanyIdOf(caller, document[1]))
     THEN /\ pc' = "build"
          /\ UNCHANGED <<company, result, log>>
     ELSE \/ \E items \in CompanyLists :
               /\ company' = IF items = <<>> THEN None ELSE Some(items[1])
               /\ pc' = "build"
               /\ log' = Append(log, "listCompanies")
               /\ UNCHANGED result
          \/ \E e \in FetchErrors :
               IF EnrichCaught(caller)
               THEN /\ pc' = "build"
                    /\ log' = log \o <<"listCompanies", "warn">>
                    /\ UNCHANGED <<company, result>>
               ELSE /\ pc' = "done"
                    /\ log' = Append(log, "listCompanies")
                    /\ result' = Raised(e)
                    /\ UNCHANGED company
  /\ UNCHANGED <<peer, caller, config, input, options, document, filterResult, payload, clientVars>>

\* blocks = build...Blocks(...); fallbackText = ...
\* (daily summary: stats = calculateStats(documents) first)
Build ==
  /\ pc = "build"
  /\ payload' = Some(BuildMessage(caller, IF IsSome(document) THEN document[1] ELSE None,
                                  company, input))
  /\ pc' = "deliver"
  /\ log' = IF caller = "dailySummary"
            THEN log \o <<"calculateStats", "build">> ELSE Append(log, "build")
  /\ UNCHANGED <<peer, caller, config, input, options, document, company, filterResult, result,
                 clientVars>>

\* const slack = new SlackClient(config.webhookUrl); slack.sendMessage(...) is entered
Deliver ==
  /\ pc = "deliver"
  /\ log' = Append(log, "sendMessage")
  /\ LET invalid == validateWebhookUrl(config.webhookUrl)
     IN IF invalid # NoError
        THEN /\ pc' = "done"
             /\ result' = OnDeliveryError(caller, invalid,
                                          IF IsSome(document) THEN document[1] ELSE None, input)
             /\ UNCHANGED <<client, sendPc, attempt, lastError>>
        ELSE /\ client' = Some(NewSlackClient(config.webhookUrl, options))
             /\ sendPc' = "loop"
             /\ attempt' = 0
             /\ lastError' = NoError
             /\ pc' = "sending"
             /\ UNCHANGED result
  /\ UNCHANGED <<peer, caller, config, input, options, handlerVars, timers, inflight, posts, waits>>

\* sendMessage has returned or thrown: the rest of the try block or the catch block
Complete ==
  /\ pc = "sending"
  /\ sendPc \in {"returned", "threw"}
  /\ pc' = "done"
  /\ result' =
       IF sendPc = "threw"
       THEN OnDeliveryError(caller, lastError,
                            IF IsSome(document) THEN document[1] ELSE None, input)
       ELSE IF caller = "direct" THEN Returned([undefined |-> TRUE])
       ELSE Returned(DeliverySuccessResult(caller,
                       IF IsSome(document) THEN document[1] ELSE None, payload[1]))
  /\ UNCHANGED <<peer, caller, config, input, options, handlerVars, clientVars, log>>

Next ==
  \/ CheckEnabled
  \/ CheckConfigured
  \/ FetchDocument
  \/ FetchDocuments
  \/ FetchExport
  \/ ApplyFilters
  \/ Enrich
  \/ Build
  \/ Deliver
  \/ StartAttempt
  \/ Respond
  \/ NetworkFail
  \/ TimeoutFires
  \/ WakeUp
  \/ Complete

Spec == Init /\ [][Next]_vars

----------------------------------------------------------------------------
(* Direct calls of the filter functions, of isNotificationEnabled and of      *)
(* calculateStats: one call per behaviour, arguments drawn from the sets below *)

MaxSummary == 3

ToggleKinds == DOMAIN ToggleDefaults

\* Every configuration of the five toggles: each one true, false or absent.
AllToggleConfigs == UNION { [S -> BOOLEAN] : S \in SUBSET ToggleKinds }

Amazon == <<"A","m","a","z","o","n">>
AmazonWebServices == <<"A","m","a","z","o","n"," ","W","e","b"," ","S","e","r","v","i","c","e","s">>
Google == <<"G","o","o","g","l","e">>
OfficeSupplies == <<"O","f","f","i","c","e"," ","S","u","p","p","l","i","e","s">>

\* A document as the getters of types.ts read it.
LibDocument(vendor, total, currency, category) ==
  [id |-> "doc-9",
   supplier |-> IF vendor = <<"no supplier">> THEN None
                ELSE Some([id |-> None, name |-> vendor]),
   totalAmount |-> total, currency |-> currency, category |-> category,
   approved |-> FALSE, processed |-> TRUE]

LibTotals == { None, Some(0), Some(50), Some(100), Some(150) }
LibCurrencies ==
  { None, Some([code |-> None]), Some([code |-> Some(<<>>)]),
    Some([code |-> Some(<<"e","u","r">>)]), Some([code |-> Some(EUR)]),
    Some([code |-> Some(USD)]) }
LibVendors ==
  { <<"no supplier">>, None, Some(<<>>), Some(<<" "," ">>), Some(Amazon),
    Some(AmazonWebServices), Some(<<" ","A","M","A","Z","O","N"," ">>), Some(Bolt) }
LibCategories ==
  { None,
    Some([id |-> None, name |-> None]),
    Some([id |-> Some(<<"c","1">>), name |-> Some(Travel)]),
    Some([id |-> Some(<<"C","1">>), name |-> None]),
    Some([id |-> Some(<<"c","2">>), name |-> Some(<<>>)]),
    Some([id |-> Some(<<" ","c","1">>), name |-> Some(OfficeSupplies)]),
    Some([id |-> None, name |-> Some(<<" ","t","r","a","v","e","l"," ">>)]),
    Some([id |-> Some(<<>>), name |-> Some(<<"O","f","f","i","c","e">>)]) }

AmountConfigs ==
  { <<>>, [minimumAmountCurrency |-> USD] } \cup
  { [minimumAmount |-> m] : m \in {0, -5, 100} } \cup
  { [minimumAmount |-> m, minimumAmountCurrency |-> c] :
      m \in {0, 100}, c \in { <<>>, <<"e","u","r">>, <<"u","s","d">> } }
VendorConfigs ==
  { <<>> } \cup
  { [vendorFilter |-> f] :
      f \in { <<>>, <<Amazon>>, <<AmazonWebServices>>, <<Google>>,
              <<Google, <<" ","a","m","a","z","o","n"," ">>>>, << <<" ">> >> } }
CategoryConfigs ==
  { <<>> } \cup
  { [categoryFilter |-> f] :
      f \in { <<>>, << <<"C","1">> >>, << <<" ","c","1"," ">> >>, << <<"t","r","a","v">> >>,
              << <<"B","u","s","i","n","e","s","s"," ","T","r","a","v","e","l">> >>, << Google, <<"O","F","F","I","C","E">> >>, << <<"c","2">> >>,
              << <<" ">> >>, << <<"c","2">>, <<>> >> } }

AmountCalls ==
  { [doc |-> LibDocument(Some(Amazon), t, c, None), cfg |-> f] :
      t \in LibTotals, c \in LibCurrencies, f \in AmountConfigs }
VendorCalls ==
  { [doc |-> LibDocument(v, Some(50), None, None), cfg |-> f] :
      v \in LibVendors, f \in VendorConfigs }
CategoryCalls ==
  { [doc |-> LibDocument(None, Some(50), None, c), cfg |-> f] :
      c \in LibCategories, f \in CategoryConfigs }
ShouldNotifyCalls ==
  { [doc |-> LibDocument(v, t, Some([code |-> Some(c)]), k), cfg |-> Merge(Merge(a, f), g)] :
      v \in { None, Some(Amazon), Some(Bolt) },
      t \in { Some(50), Some(150) },
      c \in { EUR, USD },
      k \in { None, Some([id |-> Some(<<"c","1">>), name |-> Some(Travel)]),
              Some([id |-> Some(<<"c","2">>), name |-> Some(OfficeSupplies)]) },
      a \in { <<>>, [minimumAmount |-> 100] },
      f \in { <<>>, [vendorFilter |-> <<>>], [vendorFilter |-> <<Amazon>>] },
      g \in { <<>>, [categoryFilter |-> <<>>], [categoryFilter |-> << <<"t","r","a","v">> >>] } }

GBP == <<"G","B","P">>
StatsDocuments ==
  { LibDocument(Some(<<"A">>), Some(100), Some([code |-> Some(EUR)]), None),
    LibDocument(Some(<<"A">>), Some(50), Some([code |-> Some(EUR)]), None),
    LibDocument(Some(<<"B">>), Some(30), Some([code |-> Some(USD)]), None),
    LibDocument(Some(<<"B">>), None, Some([code |-> Some(USD)]), None),
    LibDocument(None, Some(7), None, None),
    LibDocument(<<"no supplier">>, Some(20), Some([code |-> Some(GBP)]), None),
    LibDocument(Some(<<"3">>), Some(10), Some([code |-> Some(EUR)]), None) }
StatsCalls == UNION { [1..n -> StatsDocuments] : n \in 1..MaxSummary }

----------------------------------------------------------------------------
(* slack/blocks.ts: the due-date annotation of buildDocumentProcessedBlocks.   *)
(* Time is counted in hours of the process's local time zone; a calendar day   *)
(* has 24 hours except the day of a clock change, which has 23 or 25.          *)

MaxDaysBehind == 2
MaxDaysAhead == 9
WarningDays == 7
HoursPerDay == 24

\* Calendar days are numbered 1, 2, ...; today is day MaxDaysBehind + 1.
Today == MaxDaysBehind + 1
LastDay == Today + MaxDaysAhead

\* The clocks of the local time zone: the length in hours of every day.
Clocks ==
  { [d \in 1..LastDay |-> HoursPerDay] } \cup
  { [d \in 1..LastDay |-> IF d = c THEN h ELSE HoursPerDay] :
      c \in 1..LastDay, h \in {HoursPerDay - 1, HoursPerDay + 1} }

\* date.setHours(0, 0, 0, 0); date.getTime(): local midnight of day d, in hours
RECURSIVE Midnight(_, _)
Midnight(clock, d) == IF d <= 1 THEN 0 ELSE Midnight(clock, d - 1) + clock[d - 1]

\* Math.ceil(a / b) for b > 0
Ceil(a, b) == -((-a) \div b)

\* getDaysUntilDue for a due date that falls on local day dueDay
getDaysUntilDue(dueDay, clock) ==
  LET diffTime == Midnight(clock, dueDay) - Midnight(clock, Today)
  IN Ceil(diffTime, HoursPerDay)

\* buildDocumentProcessedBlocks: the context block of the due-date warning,
\* when one is pushed
dueDateWarning(doc, clock) ==
  IF ~IsSome(doc.dueDate) THEN None
  ELSE LET daysUntilDue == getDaysUntilDue(doc.dueDate[1], clock)
       IN IF daysUntilDue <= WarningDays /\ daysUntilDue >= 0
          THEN Some([type |-> "context",
                     text |-> IF daysUntilDue = 0 THEN <<":warning: *Due today!*">>
                              ELSE <<":warning: Due in ", ToString(daysUntilDue), " day",
                                     IF daysUntilDue = 1 THEN "" ELSE "s">>])
          ELSE None

\* buildDocumentProcessedBlocks(document, company, spaceId): header, fields,
\* the optional context annotations, then the actions row.  The documents of
\* BlocksCalls carry neither net/VAT totals nor a category name, so those two
\* annotations are never pushed.
buildDocumentProcessedBlocks(doc, comp, spaceId, clock) ==
  << [type |-> "header", text |-> <<"Invoice Processed">>],
     [type |-> "section", fields |-> <<"Vendor", "Amount", "Invoice #", "Date">>] >>
  \o (IF IsSome(comp)
      THEN << [type |-> "context", text |-> <<"Assigned to: *", comp[1].name, "*">>] >>
      ELSE <<>>)
  \o (IF IsSome(dueDateWarning(doc, clock)) THEN <<dueDateWarning(doc, clock)[1]>> ELSE <<>>)
  \o << [type |-> "actions", url |-> <<"/spaces/", spaceId, "/documents/", doc.id>>] >>

\* Calls of buildDocumentProcessedBlocks: the document's due date, and the
\* clocks of the time zone the process runs in
BlocksCalls ==
  { [document |-> [id |-> "doc-1", dueDate |-> due], company |-> comp,
     spaceId |-> "space-1", clock |-> clock] :
      due \in {None} \cup { Some(d) : d \in 1..LastDay },
      comp \in {None} \cup { Some(c) : c \in Companies },
      clock \in Clocks }

LibFunctions ==
  { "isNotificationEnabled", "checkMinimumAmount", "checkVendorFilter",
    "checkCategoryFilter", "shouldNotify", "calculateStats",
    "buildDocumentProcessedBlocks" }

\* The arguments of one call: `input` is the first argument, `config` the second.
LibInit ==
  /\ caller \in LibFunctions
  /\ \/ /\ caller = "isNotificationEnabled"
        /\ input \in ToggleKinds
        /\ config \in AllToggleConfigs
     \/ /\ caller \in {"checkMinimumAmount", "checkVendorFilter", "checkCategoryFilter",
                       "shouldNotify"}
        /\ \E call \in (CASE caller = "checkMinimumAmount" -> AmountCalls
                          [] caller = "checkVendorFilter" -> VendorCalls
                          [] caller = "checkCategoryFilter" -> CategoryCalls
                          [] caller = "shouldNotify" -> ShouldNotifyCalls) :
             /\ input = call.doc
             /\ config = call.cfg
     \/ /\ caller = "calculateStats"
        /\ input \in StatsCalls
        /\ config = <<>>
     \/ /\ caller = "buildDocumentProcessedBlocks"
        /\ input \in BlocksCalls
        /\ config = <<>>
  /\ options = <<>>
  /\ pc = "call"
  /\ document = None
  /\ company = None
  /\ filterResult = None
  /\ payload = None
  /\ result = Pending
  /\ client = None
  /\ sendPc = "idle"
  /\ attempt = 0
  /\ lastError = NoError
  /\ timers = {}
  /\ inflight = 0
  /\ posts = <<>>
  /\ waits = <<>>
  /\ log = <<>>
  /\ peer = None

\* The call returns `value`.
LibReturn(value) ==
  /\ pc = "call"
  /\ pc' = "done"
  /\ result' = Returned(value)
  /\ UNCHANGED <<peer, caller, config, input, options, handlerVars, clientVars, log>>

CallIsNotificationEnabled ==
  caller = "isNotificationEnabled" /\ LibReturn(isNotificationEnabled(input, config))
CallCheckMinimumAmount ==
  caller = "checkMinimumAmount" /\ LibReturn(checkMinimumAmount(input, config))
CallCheckVendorFilter ==
  caller = "checkVendorFilter" /\ LibReturn(checkVendorFilter(input, config))
CallCheckCategoryFilter ==
  caller = "checkCategoryFilter" /\ LibReturn(checkCategoryFilter(input, config))
CallShouldNotify ==
  caller = "shouldNotify" /\ LibReturn(shouldNotify(input, config))
CallCalculateStats ==
  caller = "calculateStats" /\ LibReturn(calculateStats(input))
CallBuildDocumentProcessedBlocks ==
  /\ caller = "buildDocumentProcessedBlocks"
  /\ LibReturn(buildDocumentProcessedBlocks(input.document, input.company, input.spaceId,
                                            input.clock))

LibNext ==
  \/ CallIsNotificationEnabled
  \/ CallCheckMinimumAmount
  \/ CallCheckVendorFilter
  \/ CallCheckCategoryFilter
  \/ CallShouldNotify
  \/ CallCalculateStats
  \/ CallBuildDocumentProcessedBlocks

LibSpec == LibInit /\ [][LibNext]_vars

----------------------------------------------------------------------------
(* Two invocations of one handler for the same installation and the same      *)
(* document, interleaved at their await points.  JavaScript runs one of them  *)
(* at a time; `peer` holds the locals of the one that is waiting.             *)

\* The locals of the invocation that is executing.
Running ==
  [input |-> input, pc |-> pc, document |-> document, company |-> company,
   filterResult |-> filterResult, payload |-> payload, result |-> result,
   client |-> client, sendPc |-> sendPc, attempt |-> attempt, lastError |-> lastError,
   timers |-> timers, inflight |-> inflight, posts |-> posts, waits |-> waits, log |-> log]

\* Mutant: the attempt counter is one variable shared by all sendMessage calls.
OwnAttempt_Shared(resumed, suspended) == suspended.attempt

\* `let attempt` is a local of each sendMessage call: the invocation that
\* resumes finds the counter as it left it.
OwnAttempt(resumed, suspended) == resumed.attempt

\* What the webhook and the data service answer in the two-invocation runs.
PairAnswers ==
  { [status |-> 200, statusText |-> "OK", body |-> "ok"],
    [status |-> 400, statusText |-> "Bad Request", body |-> "invalid_payload"],
    [status |-> 500, statusText |-> "Internal Server Error", body |-> "ok"] }
PairInputs ==
  /\ IsSome(document) => document[1] = DocAcme
  /\ \A i \in 1..Len(posts) : posts[i].answer \in PairAnswers

PairInit ==
  /\ caller = "documentProcessed"
  /\ config = [webhookUrl |-> CHOOSE u \in ValidUrls : TRUE]
  /\ input = [documentId |-> "doc-1", spaceId |-> "space-1"]
  /\ options = <<>>
  /\ pc = "start"
  /\ document = None
  /\ company = None
  /\ filterResult = None
  /\ payload = None
  /\ result = Pending
  /\ client = None
  /\ sendPc = "idle"
  /\ attempt = 0
  /\ lastError = NoError
  /\ timers = {}
  /\ inflight = 0
  /\ posts = <<>>
  /\ waits = <<>>
  /\ log = <<>>
  /\ peer = Some([input |-> [documentId |-> "doc-1", spaceId |-> "space-1"],
                  pc |-> "start", document |-> None, company |-> None,
                  filterResult |-> None, payload |-> None, result |-> Pending,
                  client |-> None, sendPc |-> "idle", attempt |-> 0,
                  lastError |-> NoError, timers |-> {}, inflight |-> 0,
                  posts |-> <<>>, waits |-> <<>>, log |-> <<>>])

\* The executing invocation reaches an await (or ends) and the other one runs.
Switch ==
  /\ IsSome(peer)
  /\ peer' = Some(Running)
  /\ input' = peer[1].input
  /\ pc' = peer[1].pc
  /\ document' = peer[1].document
  /\ company' = peer[1].company
  /\ filterResult' = peer[1].filterResult
  /\ payload' = peer[1].payload
  /\ result' = peer[1].result
  /\ client' = peer[1].client
  /\ sendPc' = peer[1].sendPc
  /\ attempt' = OwnAttempt(peer[1], Running)
  /\ lastError' = peer[1].lastError
  /\ timers' = peer[1].timers
  /\ inflight' = peer[1].inflight
  /\ posts' = peer[1].posts
  /\ waits' = peer[1].waits
  /\ log' = peer[1].log
  /\ UNCHANGED <<caller, config, options>>

\* A step of the executing invocation.
PairStep ==
  \/ CheckEnabled
  \/ FetchDocument
  \/ ApplyFilters
  \/ Enrich
  \/ Build
  \/ Deliver
  \/ StartAttempt
  \/ Respond
  \/ WakeUp
  \/ Complete

PairNext ==
  \/ PairStep /\ PairInputs'
  \/ Switch

PairSpec == PairInit /\ [][PairNext]_vars

----------------------------------------------------------------------------
(* Properties of SlackClient.sendMessage *)

Sending == IsSome(client)
Attempts == Len(posts) + inflight

\* The attempt failed with an error sendMessage does not rethrow at once.
FailedRetryably(p) ==
  /\ p.error # NoError
  /\ ~(p.error.statusCode \in 400..499 /\ p.error.statusCode # 429)

\* C1: with retries = r >= 0, a sendMessage call whose attempts all fail with a
\* retryable error makes exactly r+1 POSTs and then throws the error of the
\* last attempt (which a direct caller sees raised); no call ever makes more
\* than r+1 POSTs.
C1_RetriesExhausted ==
  (Sending /\ Retries >= 0) =>
    /\ Attempts <= Retries + 1
    /\ (sendPc = "threw" /\ \A i \in 1..Len(posts) : FailedRetryably(posts[i])) =>
         /\ Len(posts) = Retries + 1
         /\ lastError = posts[Len(posts)].error
         /\ (caller = "direct" /\ pc = "done") => result = Raised(posts[Len(posts)].error)

C1_Witness ==
  /\ caller = "direct"
  /\ pc = "done"
  /\ Sending
  /\ Retries = DEFAULT_RETRIES
  /\ Len(posts) = 3
  /\ \A i \in 1..3 : posts[i].answer \in Responses /\ posts[i].answer.status = 500
  /\ result.kind = "raised"

\* What the claim calls retryable: HTTP 5xx, HTTP 429, or status 0.
NamedRetryable(e) ==
  e.statusCode \in 500..599 \/ e.statusCode = 429 \/ e.statusCode = 0

\* A 4xx status other than 429.
Is4xxNot429(e) == e.statusCode \in 400..499 /\ e.statusCode # 429

\* The attempt posts[i] was followed by a backoff wait or by another attempt.
Followed(i) == i < Attempts \/ Len(waits) >= i

\* An attempt that failed with a 4xx other than 429 is the last one, no wait
\* follows it and its error is the one thrown.
ClientErrorsEndTheCall ==
  \A i \in 1..Len(posts) :
    (posts[i].error # NoError /\ Is4xxNot429(posts[i].error)) =>
      /\ i = Len(posts)
      /\ inflight = 0
      /\ Len(waits) < i
      /\ sendPc = "threw"
      /\ lastError = posts[i].error
      /\ posts[i].error.statusCode = posts[i].answer.status
      /\ posts[i].error.responseBody = posts[i].answer.body
      /\ (caller = "direct" /\ pc = "done") => result = Raised(posts[i].error)

\* C2 as stated: a failed attempt is followed by another attempt only when its
\* error is HTTP 5xx, HTTP 429 or status 0; other 4xx end the call at once.
C2_Original ==
  Sending =>
    /\ \A i \in 1..Len(posts) :
         (posts[i].error # NoError /\ i < Attempts) => NamedRetryable(posts[i].error)
    /\ ClientErrorsEndTheCall

\* C2 amended: a failed attempt is followed by a wait or another attempt only
\* when its error is not a 4xx other than 429 (so also after a 2xx with a body
\* other than "ok" and after a 3xx); a 4xx other than 429 ends the call at
\* once with that same error.
C2_OnlyClientErrorsStopRetry ==
  Sending =>
    /\ \A i \in 1..Len(posts) :
         Followed(i) => (posts[i].error # NoError /\ ~Is4xxNot429(posts[i].error))
    /\ \A i \in 1..Len(posts) :
         (FailedRetryably(posts[i]) /\ i <= Retries) => Len(waits) >= i
    /\ ClientErrorsEndTheCall

C2_Witness ==
  /\ sendPc = "threw"
  /\ Len(posts) = 2
  /\ posts[1].error.statusCode = 200
  /\ posts[2].error.statusCode = 400
  /\ posts[2].error.responseBody = "invalid_payload"

\* C3: the wait after failed attempt k (k = 0, 1, ...) is retryDelay * 2^k, so
\* the waits strictly increase; there is no wait before the first attempt and
\* none after attempt number `retries`.
C3_ExponentialBackoff ==
  Sending =>
    /\ \A k \in 0..(Len(waits) - 1) : waits[k + 1] = TheClient.options.retryDelay * 2^k
    /\ \A k \in 1..(Len(waits) - 1) : waits[k] < waits[k + 1]
    /\ Len(waits) <= Len(posts)
    /\ Retries >= 0 => Len(waits) <= Retries
    /\ sendPc = "sleeping" => Len(waits) = Len(posts)
    /\ sendPc \in {"loop", "request"} => Len(waits) = attempt \/ attempt > Retries

C3_Witness ==
  /\ caller \in Handlers
  /\ pc = "done"
  /\ Len(posts) = 3
  /\ waits = <<1000, 2000>>

\* C4: sendMessage returns exactly when an attempt got an HTTP-ok response
\* whose body is "ok"; for every other response the attempt throws a
\* SlackApiError carrying the response's status and raw body.
GoodResponse(a) == "status" \in DOMAIN a /\ a.status \in 200..299 /\ a.body = "ok"

C4_SuccessIsOkAndOkBody ==
  Sending =>
    /\ (sendPc = "returned") <=> (\E i \in 1..Len(posts) : GoodResponse(posts[i].answer))
    /\ \A i \in 1..Len(posts) :
         IF GoodResponse(posts[i].answer)
         THEN posts[i].error = NoError /\ i = Len(posts)
         ELSE /\ posts[i].error.name = "SlackApiError"
              /\ "status" \in DOMAIN posts[i].answer =>
                   /\ posts[i].error.statusCode = posts[i].answer.status
                   /\ posts[i].error.responseBody = posts[i].answer.body

C4_Witness ==
  /\ sendPc = "returned"
  /\ Len(posts) = 2
  /\ posts[1].answer.status = 200
  /\ posts[1].answer.body = "invalid_payload"
  /\ posts[1].error.statusCode = 200

\* C5: an attempt aborted by the timeout throws SlackApiError(0, "Timeout"),
\* any other transport failure SlackApiError(0, ""); both are retried while
\* attempts remain; no timeout timer outlives its attempt.
C5_TransportErrorsAndTimer ==
  Sending =>
    /\ \A i \in 1..Len(posts) :
         ~("status" \in DOMAIN posts[i].answer) =>
           /\ posts[i].error.name = "SlackApiError"
           /\ posts[i].error.statusCode = 0
           /\ posts[i].error.responseBody =
                (IF posts[i].answer.name = "AbortError" THEN "Timeout" ELSE "")
           /\ i <= Retries =>
                (Len(waits) >= i /\ ~(i = Len(posts) /\ sendPc = "threw"))
    /\ sendPc # "request" => timers = {}
    /\ sendPc = "request" => timers = {attempt}

C5_Witness ==
  /\ sendPc = "returned"
  /\ Len(posts) = 3
  /\ posts[1].answer = AbortFailure
  /\ posts[1].error.responseBody = "Timeout"
  /\ posts[2].answer \in NetworkFailures
  /\ posts[2].error.responseBody = ""
  /\ timers = {}

----------------------------------------------------------------------------
(* Properties of the handlers *)

Done == pc = "done"
Called(call) == \E i \in 1..Len(log) : log[i] = call
TimesCalled(call) == Cardinality({i \in 1..Len(log) : log[i] = call})
NoDelivery == posts = <<>> /\ inflight = 0 /\ waits = <<>> /\ client = None
HasField(r, f) == f \in DOMAIN r

\* The two messages validateWebhookUrl can throw.
ValidationMessages ==
  { <<"Webhook URL is required">>,
    <<"Invalid Slack webhook URL format. Expected: https://hooks.slack.com/services/T.../B.../...">> }

\* The result is a failure whose error text ends with one of `messages`.
FailsCarrying(messages) ==
  /\ result.kind = "returned"
  /\ result.value.success = FALSE
  /\ HasField(result.value, "error")
  /\ \E m \in messages :
       /\ Len(result.value.error) > Len(m)
       /\ SubSeq(result.value.error, Len(result.value.error) - Len(m) + 1,
                 Len(result.value.error)) = m

\* C6 as stated: with an invalid webhookUrl no POST is made, nothing is retried,
\* and every handler run ends with success=false carrying the validation message.
C6_Original ==
  (config.webhookUrl \in InvalidUrls) =>
    /\ NoDelivery
    /\ (caller \in Handlers /\ Done) => FailsCarrying(ValidationMessages)
    /\ (caller = "direct" /\ Done) =>
         (result.kind = "raised" /\ result.error.name = "SlackWebhookValidationError")

\* C6 amended: with an invalid webhookUrl the constructor raises a validation
\* error (not an API error), no POST is made and nothing is retried; every
\* handler run that reaches the delivery step ends with success=false carrying
\* the validation message (a run that ends earlier returns its earlier result).
C6_InvalidUrlNeverPosts ==
  (config.webhookUrl \in InvalidUrls) =>
    /\ NoDelivery
    /\ (caller \in Handlers /\ Done /\ Called("sendMessage")) =>
         FailsCarrying(ValidationMessages)
    /\ (caller = "direct" /\ Done) =>
         /\ result.kind = "raised"
         /\ result.error.name = "SlackWebhookValidationError"
         /\ result.error.message \in ValidationMessages

C6_Witness ==
  /\ caller = "documentProcessed"
  /\ config.webhookUrl \in InvalidUrls
  /\ config.webhookUrl # <<>>
  /\ Done
  /\ Called("sendMessage")
  /\ result.kind = "returned"
  /\ result.value.success = FALSE
  /\ posts = <<>>

\* C7: every handler invocation completes by returning a HandlerResult, whatever
\* its collaborators do; it never raises.
C7_HandlersNeverRaise ==
  caller \in Handlers =>
    /\ result.kind # "raised"
    /\ Done =>
         /\ result.kind = "returned"
         /\ HasField(result.value, "success")
         /\ result.value.success \in BOOLEAN
    /\ ~Done => result = Pending

C7_Witness ==
  /\ caller = "exportCompleted"
  /\ Done
  /\ sendPc = "threw"
  /\ Len(posts) = 3
  /\ result.kind = "returned"
  /\ result.value.success = FALSE

\* The toggle of the handler resolves to false.
ToggleOff ==
  /\ caller \in EventHandlers
  /\ IF HasField(config, ToggleOf(caller))
     THEN config[ToggleOf(caller)] = FALSE
     ELSE caller \in {"documentCreated", "documentUpdated", "dailySummary"}

NoFetch ==
  /\ document = None
  /\ company = None
  /\ \A i \in 1..Len(log) : log[i] = "isNotificationEnabled"

\* C8 as stated: each of the five event handlers, when its toggle is off,
\* returns success, skipped, reason "notification_type_disabled", and neither
\* fetches nor delivers.
C8_Original ==
  ToggleOff =>
    /\ NoFetch
    /\ NoDelivery
    /\ Done => result = Returned([success |-> TRUE, skipped |-> TRUE,
                                  reason |-> <<"notification_type_disabled">>])

\* C8 amended: when its toggle is off each of the five event handlers returns
\* success, skipped and neither fetches nor delivers; the reason is
\* "notification_type_disabled" for the document and export handlers and
\* "daily_summary_disabled" for the daily-summary handler.
C8_DisabledShortCircuits ==
  ToggleOff =>
    /\ NoFetch
    /\ NoDelivery
    /\ pc \in {"start", "done"}
    /\ Done =>
         result = Returned([success |-> TRUE, skipped |-> TRUE,
                            reason |-> IF caller = "dailySummary"
                                       THEN <<"daily_summary_disabled">>
                                       ELSE <<"notification_type_disabled">>])

C8_Witness ==
  /\ caller = "documentProcessed"
  /\ HasField(config, "notifyOnDocumentProcessed")
  /\ config.notifyOnDocumentProcessed = FALSE
  /\ config.webhookUrl \in ValidUrls
  /\ Done
  /\ result.value.reason = <<"notification_type_disabled">>

\* The primary fetch of a document handler or of the daily summary has failed.
PrimaryFetchFailed ==
  /\ caller \in DocumentHandlers \cup {"dailySummary"}
  /\ (Called("getDocument") \/ Called("listDocuments"))
  /\ document = None

\* C9: when the primary fetch fails it is not retried, the handler returns
\* success=false with an error text that embeds the fetch failure's message,
\* and nothing of the later steps happens.
C9_FetchFailureIsFatal ==
  PrimaryFetchFailed =>
    /\ TimesCalled("getDocument") + TimesCalled("listDocuments") = 1
    /\ Len(log) = 2
    /\ Done
    /\ FailsCarrying({e.message : e \in FetchErrors})
    /\ ~HasField(result.value, "skipped")
    /\ filterResult = None
    /\ company = None
    /\ payload = None
    /\ NoDelivery

C9_Witness ==
  /\ caller = "dailySummary"
  /\ PrimaryFetchFailed
  /\ Done
  /\ result.value.error = <<"Failed to fetch documents: ", "service unavailable">>

\* The order of the steps of a document handler.
DocumentPipeline ==
  <<"isNotificationEnabled", "getDocument", "shouldNotify", "listCompanies", "warn",
    "build", "sendMessage">>

StepIndex(step) == CHOOSE k \in 1..Len(DocumentPipeline) : DocumentPipeline[k] = step

\* C10: a document handler runs its steps in the order enablement check, fetch,
\* filters, enrichment, build, delivery; nothing is delivered unless
\* shouldNotify accepted the fetched document; when it rejects, the handler
\* returns success, skipped with the filter's reason, without enrichment fetch
\* or delivery.
C10_FiltersBeforeDelivery ==
  caller \in DocumentHandlers =>
    /\ \A i \in 1..Len(log) : \E k \in 1..Len(DocumentPipeline) : DocumentPipeline[k] = log[i]
    /\ \A i, j \in 1..Len(log) : i < j => StepIndex(log[i]) < StepIndex(log[j])
    /\ (Called("sendMessage") \/ Called("build") \/ ~NoDelivery) =>
         /\ IsSome(document)
         /\ filterResult = Some(shouldNotify(document[1], config))
         /\ filterResult[1].shouldNotify = TRUE
    /\ (IsSome(filterResult) /\ ~filterResult[1].shouldNotify) =>
         /\ Done
         /\ result.kind = "returned"
         /\ result.value.success = TRUE
         /\ HasField(result.value, "skipped") /\ result.value.skipped = TRUE
         /\ result.value.reason = filterResult[1].reason
         /\ ~Called("listCompanies")
         /\ company = None
         /\ NoDelivery

C10_Witness ==
  /\ caller = "documentCreated"
  /\ Done
  /\ IsSome(filterResult)
  /\ ~filterResult[1].shouldNotify
  /\ filterResult[1].reason[1] = "vendor_not_in_filter:"
  /\ config.webhookUrl \in ValidUrls

\* The document as it would be without a company: no companyId, no supplier id.
WithoutCompany(doc) ==
  [doc EXCEPT !.companyId = None,
              !.supplier = IF IsSome(doc.supplier)
                           THEN Some([doc.supplier[1] EXCEPT !.id = None]) ELSE None]

\* What a document handler returns for a given delivery outcome.
ResultByDelivery(doc) ==
  IF sendPc = "returned"
  THEN Returned(DeliverySuccessResult(caller, doc, payload[1]))
  ELSE IF client = None
  THEN Returned(DeliveryFailureResult(caller, validateWebhookUrl(config.webhookUrl), doc, input))
  ELSE Returned(DeliveryFailureResult(caller, lastError, doc, input))

\* C11: in a document handler the enrichment fetch never ends the run: once
\* listCompanies has been called the handler goes on to build and deliver; when
\* listCompanies failed the company is absent, the message is built without a
\* company, and the result is the one the same delivery outcome gives for the
\* document without a company.
C11_EnrichmentFailureIsHarmless ==
  (caller \in DocumentHandlers /\ Called("listCompanies")) =>
    /\ result.kind # "raised"
    /\ pc \in {"build", "deliver", "sending", "done"}
    /\ Done => (Called("build") /\ Called("sendMessage"))
    /\ Called("warn") =>
         /\ company = None
         /\ IsSome(payload) =>
              payload[1] = BuildMessage(caller, WithoutCompany(document[1]), None, input)
         /\ Done =>
              /\ result = ResultByDelivery(document[1])
              /\ result = ResultByDelivery(WithoutCompany(document[1]))

C11_Witness ==
  /\ caller = "documentProcessed"
  /\ Called("warn")
  /\ Done
  /\ sendPc = "returned"
  /\ result.kind = "returned"
  /\ result.value.success = TRUE

\* The error the delivery step raised: the constructor's validation error, or
\* what sendMessage threw.
DeliveryError == IF client = None THEN validateWebhookUrl(config.webhookUrl) ELSE lastError

\* The text `tail` is the end of the text `whole`.
EndsWith(whole, tail) ==
  /\ Len(whole) >= Len(tail)
  /\ SubSeq(whole, Len(whole) - Len(tail) + 1, Len(whole)) = tail

\* C12: an event-handler run that reached the delivery step returns, when the
\* delivery raised, success=false with an error text that contains the
\* delivery error's message, plus documentId (document handlers) or exportId
\* (export handler); when sendMessage returned, success=true, not skipped,
\* with its identifying fields.
C12_DeliveryDecidesResult ==
  (caller \in EventHandlers /\ Done /\ Called("sendMessage")) =>
    /\ result.kind = "returned"
    /\ sendPc \in {"idle", "returned", "threw"}
    /\ IF sendPc = "returned"
       THEN /\ result.value.success = TRUE
            /\ ~HasField(result.value, "skipped")
            /\ ~HasField(result.value, "error")
            /\ caller \in DocumentHandlers => result.value.documentId = document[1].id
            /\ caller = "exportCompleted" =>
                 /\ result.value.exportId = document[1].id
                 /\ result.value.format = document[1].format
                 /\ result.value.documentCount = document[1].documentCount
            /\ caller = "dailySummary" => result.value.stats = calculateStats(document[1])
       ELSE /\ result.value.success = FALSE
            /\ DeliveryError # NoError
            /\ result.value.error[1] = "Failed to send Slack notification: "
            /\ EndsWith(result.value.error, DeliveryError.message)
            /\ caller \in DocumentHandlers =>
                 /\ DOMAIN result.value = {"success", "error", "documentId"}
                 /\ result.value.documentId = document[1].id
            /\ caller = "exportCompleted" =>
                 /\ DOMAIN result.value = {"success", "error", "exportId"}
                 /\ result.value.exportId = input.exportId
            /\ caller = "dailySummary" => DOMAIN result.value = {"success", "error"}

C12_Witness ==
  /\ caller = "exportCompleted"
  /\ Done
  /\ sendPc = "threw"
  /\ lastError.statusCode = 404
  /\ result.value.error = <<"Failed to send Slack notification: ", "Slack API error: ",
                            "404", " ", "Not Found">>
  /\ result.value.exportId = "exp-1"

\* getExport failed in this run of the export handler.
GetExportFailed == caller = "exportCompleted" /\ Called("getExport") /\ Called("warn")

\* C13: when getExport fails the export handler does not end: the export it
\* works with is built from the event (id = exportId, spaceId, format or
\* "unknown", documentCount or 0, status COMPLETED, no download URL), the message
\* is built from it and delivery is attempted; the result is decided by the
\* delivery outcome alone.
C13_ExportFallback ==
  GetExportFailed =>
    /\ TimesCalled("getExport") = 1
    /\ IsSome(document)
    /\ document[1].id = input.exportId
    /\ document[1].spaceId = input.spaceId
    /\ document[1].format =
         (IF IsSome(input.format) /\ Len(input.format[1]) > 0
          THEN input.format[1] ELSE <<"u","n","k","n","o","w","n">>)
    /\ document[1].documentCount =
         (IF IsSome(input.documentCount) THEN input.documentCount[1] ELSE 0)
    /\ document[1].status = "COMPLETED"
    /\ document[1].downloadUrl = None
    /\ pc \in {"build", "deliver", "sending", "done"}
    /\ IsSome(payload) => payload[1] = BuildMessage(caller, document[1], None, input)
    /\ Done =>
         /\ Called("build") /\ Called("sendMessage")
         /\ result.kind = "returned"
         /\ result.value.success = (sendPc = "returned")
         /\ sendPc = "returned" =>
              result.value = [success |-> TRUE, exportId |-> input.exportId,
                              format |-> document[1].format,
                              documentCount |-> document[1].documentCount]
         /\ sendPc # "returned" =>
              result.value = [success |-> FALSE,
                              error |-> <<"Failed to send Slack notification: ">>
                                        \o DeliveryError.message,
                              exportId |-> input.exportId]

C13_Witness ==
  /\ GetExportFailed
  /\ input.format = Some(<<>>)
  /\ Done
  /\ sendPc = "returned"
  /\ result.value.format = <<"u","n","k","n","o","w","n">>
  /\ result.value.documentCount = 0

\* listDocuments answered with an empty collection.
EmptyCollection == caller = "dailySummary" /\ document = Some(<<>>)

\* C14: when the daily-summary toggle is on and listDocuments returns an empty
\* collection, the handler returns success, skipped, reason "no_activity", and
\* neither calculateStats nor the message builder nor the webhook delivery is
\* invoked; "no_activity" is returned in no other case.
C14_NoActivitySkips ==
  /\ EmptyCollection =>
       /\ isNotificationEnabled("enableDailySummary", config)
       /\ Done
       /\ result = Returned([success |-> TRUE, skipped |-> TRUE, reason |-> <<"no_activity">>])
       /\ log = <<"isNotificationEnabled", "listDocuments">>
       /\ ~Called("calculateStats")
       /\ ~Called("build")
       /\ ~Called("sendMessage")
       /\ payload = None
       /\ NoDelivery
  /\ (caller = "dailySummary" /\ Called("calculateStats")) =>
       (IsSome(document) /\ Len(document[1]) > 0)

C14_Witness ==
  /\ EmptyCollection
  /\ config.enableDailySummary = TRUE
  /\ config.webhookUrl \in ValidUrls
  /\ Done
  /\ result.value.reason = <<"no_activity">>

----------------------------------------------------------------------------
(* Properties of the functions of utils/filters.ts, called directly *)

Answered(fn) == caller = fn /\ pc = "done"

\* The toggles that are on when the configuration does not mention them.
OnByDefault == {"notifyOnDocumentProcessed", "notifyOnExportCompleted"}

\* C15: for each of the five toggle kinds and every configuration,
\* isNotificationEnabled returns the configured value when the field is defined
\* (an explicit false overrides a true default) and otherwise the default:
\* processed and export-completed on; created, updated and daily summary off.
C15_TogglesResolve ==
  Answered("isNotificationEnabled") =>
    /\ input \in {"notifyOnDocumentCreated", "notifyOnDocumentProcessed",
                  "notifyOnDocumentUpdated", "notifyOnExportCompleted",
                  "enableDailySummary"}
    /\ result = Returned(IF input \in DOMAIN config THEN config[input]
                         ELSE input \in OnByDefault)

C15_Witness ==
  /\ Answered("isNotificationEnabled")
  /\ input = "notifyOnExportCompleted"
  /\ DOMAIN config = {"notifyOnDocumentProcessed", "enableDailySummary"}
  /\ config.notifyOnDocumentProcessed = FALSE
  /\ result = Returned(TRUE)

\* The three checks applied to the arguments of the call.
AmountRejects == ~checkMinimumAmount(input, config).shouldNotify
VendorRejects == ~checkVendorFilter(input, config).shouldNotify
CategoryRejects == ~checkCategoryFilter(input, config).shouldNotify

\* C16: shouldNotify returns the result of the first failing check in the order
\* amount, vendor, category: when several fail the reason is the earliest
\* one's; when all three pass it returns shouldNotify=true without a reason.
C16_FirstFailingCheckWins ==
  Answered("shouldNotify") =>
    /\ result.kind = "returned"
    /\ result.value.shouldNotify = ~(AmountRejects \/ VendorRejects \/ CategoryRejects)
    /\ AmountRejects =>
         (result.value = checkMinimumAmount(input, config)
          /\ result.value.reason[1] = "amount_below_minimum:")
    /\ (~AmountRejects /\ VendorRejects) =>
         (result.value = checkVendorFilter(input, config)
          /\ result.value.reason[1] = "vendor_not_in_filter:")
    /\ (~AmountRejects /\ ~VendorRejects /\ CategoryRejects) =>
         (result.value = checkCategoryFilter(input, config)
          /\ result.value.reason[1] = "category_not_in_filter:")
    /\ result.value.shouldNotify => DOMAIN result.value = {"shouldNotify"}

C16_Witness ==
  /\ Answered("shouldNotify")
  /\ AmountRejects
  /\ VendorRejects
  /\ CategoryRejects
  /\ result.value.reason = <<"amount_below_minimum:", "50", "<", "100">>

\* The currency of the document and of the filter as the claim reads them:
\* "EUR" when absent (or empty), compared without regard to case.
ClaimedDocCurrency ==
  IF IsSome(input.currency) /\ IsSome(input.currency[1].code)
     /\ Len(input.currency[1].code[1]) > 0
  THEN input.currency[1].code[1] ELSE EUR
ClaimedFilterCurrency ==
  IF HasField(config, "minimumAmountCurrency") /\ Len(config.minimumAmountCurrency) > 0
  THEN config.minimumAmountCurrency ELSE EUR
ClaimedTotal == IF IsSome(input.totalAmount) THEN input.totalAmount[1] ELSE 0

\* When the claim says the amount check rejects.
ClaimedAmountRejects ==
  /\ HasField(config, "minimumAmount")
  /\ config.minimumAmount > 0
  /\ toLowerCase(ClaimedDocCurrency) = toLowerCase(ClaimedFilterCurrency)
  /\ ClaimedTotal < config.minimumAmount

NoListFilter(field) == ~HasField(config, field) \/ Len(config[field]) = 0

\* C17: the minimum-amount check rejects exactly when minimumAmount is set and
\* > 0, the document currency equals the filter currency (both upper-cased,
\* "EUR" when absent) and the total (0 when missing) is strictly below the
\* minimum; a rejection's reason starts with "amount_below_minimum"; a currency
\* mismatch never blocks; with empty vendor and category filters a document
\* the amount check accepts gets shouldNotify=true.
C17_MinimumAmount ==
  /\ Answered("checkMinimumAmount") =>
       /\ result.value.shouldNotify = ~ClaimedAmountRejects
       /\ ClaimedAmountRejects =>
            result.value.reason = <<"amount_below_minimum:", ToString(ClaimedTotal), "<",
                                    ToString(config.minimumAmount)>>
       /\ ~ClaimedAmountRejects => result.value = [shouldNotify |-> TRUE]
       /\ toLowerCase(ClaimedDocCurrency) # toLowerCase(ClaimedFilterCurrency) =>
            result.value.shouldNotify
  /\ Answered("shouldNotify") =>
       /\ ClaimedAmountRejects =>
            (~result.value.shouldNotify /\ result.value.reason[1] = "amount_below_minimum:")
       /\ (~ClaimedAmountRejects /\ NoListFilter("vendorFilter")
           /\ NoListFilter("categoryFilter")) => result.value = [shouldNotify |-> TRUE]

C17_Witness ==
  /\ Answered("checkMinimumAmount")
  /\ config = [minimumAmount |-> 100, minimumAmountCurrency |-> <<"e","u","r">>]
  /\ input.currency = None
  /\ input.totalAmount = None
  /\ result.value = [shouldNotify |-> FALSE,
                     reason |-> <<"amount_below_minimum:", "0", "<", "100">>]

\* `part` occurs in `whole` as a contiguous run of characters.
IsSubstring(part, whole) ==
  \E i \in 1..(Len(whole) + 1) : \E j \in (i - 1)..Len(whole) : SubSeq(whole, i, j) = part

\* Two texts, lower-cased and trimmed, one of which contains the other.
Related(a, b) ==
  LET na == toLowerCase(trim(a))
      nb == toLowerCase(trim(b))
  IN IsSubstring(na, nb) \/ IsSubstring(nb, na)

\* The vendor name of the document, when it has one.
VendorGiven ==
  /\ IsSome(input.supplier)
  /\ IsSome(input.supplier[1].name)
  /\ Len(input.supplier[1].name[1]) > 0
VendorText == input.supplier[1].name[1]

\* C18: the vendor check passes when the vendor filter is empty or the document
\* has no vendor name; otherwise it passes exactly when some filter entry and
\* the vendor name, both lower-cased and trimmed, contain one another in either
\* direction; a rejection's reason is "vendor_not_in_filter:<vendorName>".
C18_VendorFilter ==
  Answered("checkVendorFilter") =>
    /\ (NoListFilter("vendorFilter") \/ ~VendorGiven) => result.value = [shouldNotify |-> TRUE]
    /\ (~NoListFilter("vendorFilter") /\ VendorGiven) =>
         IF \E k \in 1..Len(config.vendorFilter) : Related(config.vendorFilter[k], VendorText)
         THEN result.value = [shouldNotify |-> TRUE]
         ELSE result.value = [shouldNotify |-> FALSE,
                              reason |-> <<"vendor_not_in_filter:">> \o VendorText]

C18_Witness ==
  /\ Answered("checkVendorFilter")
  /\ config = [vendorFilter |-> <<AmazonWebServices>>]
  /\ VendorGiven
  /\ VendorText = Amazon
  /\ result.value.shouldNotify

\* The category id and name of the document, when it has them.
CategoryIdGiven ==
  IsSome(input.category) /\ IsSome(input.category[1].id) /\ Len(input.category[1].id[1]) > 0
CategoryNameGiven ==
  IsSome(input.category) /\ IsSome(input.category[1].name)
  /\ Len(input.category[1].name[1]) > 0
CategoryIdText == input.category[1].id[1]
CategoryNameText == input.category[1].name[1]

\* The filter entry names the category: by its id, compared without regard to
\* case, or by its name, one text containing the other.
NamesCategory(entry) ==
  \/ /\ IsSome(input.category) /\ IsSome(input.category[1].id)
     /\ toLowerCase(trim(entry)) = toLowerCase(CategoryIdText)
  \/ CategoryNameGiven /\ Related(entry, CategoryNameText)

----------------------------------------------------------------------------
(* Properties of calculateStats, called directly *)

\* The currency a document counts under: its code, "EUR" when it has none.
CurrencyOf(d) ==
  IF IsSome(d.currency) /\ IsSome(d.currency[1].code) /\ Len(d.currency[1].code[1]) > 0
  THEN d.currency[1].code[1] ELSE EUR

HeldBy(c) == { i \in 1..Len(input) : CurrencyOf(input[i]) = c }
FirstOf(c) == CHOOSE i \in HeldBy(c) : \A j \in HeldBy(c) : i <= j

\* The currency held by the most documents, the first encountered on a tie.
PrimaryCurrency ==
  CHOOSE c \in { CurrencyOf(input[i]) : i \in 1..Len(input) } :
    \A i \in 1..Len(input) :
      LET o == CurrencyOf(input[i])
      IN \/ Cardinality(HeldBy(c)) > Cardinality(HeldBy(o))
         \/ Cardinality(HeldBy(c)) = Cardinality(HeldBy(o)) /\ FirstOf(c) <= FirstOf(o)

RECURSIVE TotalOver(_)
TotalOver(indices) ==
  IF indices = {} THEN 0
  ELSE LET i == CHOOSE k \in indices : TRUE
       IN (IF IsSome(input[i].totalAmount) THEN input[i].totalAmount[1] ELSE 0)
          + TotalOver(indices \ {i})

\* C20: for a non-empty collection calculateStats returns processedCount = the
\* size of the collection, currency = the currency ("EUR" when absent) held by
\* the most documents, the first encountered winning a tie, and totalAmount =
\* the sum of the totals of the documents in that currency only.
C20_PrimaryCurrencyTotals ==
  (Answered("calculateStats") /\ Len(input) > 0) =>
    /\ result.value.processedCount = Len(input)
    /\ result.value.currency = PrimaryCurrency
    /\ result.value.totalAmount = TotalOver(HeldBy(PrimaryCurrency))

C20_Witness ==
  /\ Answered("calculateStats")
  /\ Len(input) = 3
  /\ \A i \in 1..3 : IsSome(input[i].totalAmount)
  /\ <<input[1].totalAmount[1], input[2].totalAmount[1], input[3].totalAmount[1]>>
       = <<100, 50, 30>>
  /\ <<CurrencyOf(input[1]), CurrencyOf(input[2]), CurrencyOf(input[3])>> = <<EUR, EUR, USD>>
  /\ result.value.processedCount = 3
  /\ result.value.currency = EUR
  /\ result.value.totalAmount = 150

\* The vendor name a document counts under, when it has one.
VendorNamed(d) ==
  IsSome(d.supplier) /\ IsSome(d.supplier[1].name) /\ Len(d.supplier[1].name[1]) > 0
NamedBy(v) == { i \in 1..Len(input) : VendorNamed(input[i]) /\ input[i].supplier[1].name[1] = v }
FirstNamed(v) == CHOOSE i \in NamedBy(v) : \A j \in NamedBy(v) : i <= j
VendorsNamed == { input[i].supplier[1].name[1] : i \in { k \in 1..Len(input) : VendorNamed(input[k]) } }

\* The vendor named by the most documents, the first encountered on a tie.
FirstEncounteredTopVendor ==
  CHOOSE v \in VendorsNamed :
    \A o \in VendorsNamed :
      \/ Cardinality(NamedBy(v)) > Cardinality(NamedBy(o))
      \/ Cardinality(NamedBy(v)) = Cardinality(NamedBy(o)) /\ FirstNamed(v) <= FirstNamed(o)

\* C21 as stated: topVendor is the vendor name with the highest occurrence
\* count among the documents that have a vendor name, the vendor first
\* encountered winning a tie, and topVendorCount is that count; topVendor is
\* null with count 0 exactly when no document has a vendor name.
C21_Original ==
  Answered("calculateStats") =>
    IF VendorsNamed = {}
    THEN result.value.topVendor = None /\ result.value.topVendorCount = 0
    ELSE /\ result.value.topVendor = Some(FirstEncounteredTopVendor)
         /\ result.value.topVendorCount = Cardinality(NamedBy(FirstEncounteredTopVendor))

----------------------------------------------------------------------------
(* Properties of the test-connection action *)

\* The test message could not be delivered: sendMessage threw an API error.
TestDeliveryFailed ==
  /\ caller = "testConnection"
  /\ Done
  /\ sendPc = "threw"
  /\ lastError.name = "SlackApiError"

NotFoundText == <<"Webhook URL not found. Please verify your Slack webhook URL is correct.">>
AccessDeniedText ==
  <<"Access denied. The webhook may have been revoked. Please create a new webhook.">>
ChannelNotFoundText ==
  <<"Channel not found. Please verify the channel exists and the webhook has access.">>
InvalidFormatText == <<"Invalid message format. Please contact support.">>
GenericText == <<"Failed to send message to Slack.">>

\* C22: in the test-connection action an API error of the delivery is turned
\* into guidance: status 404 gives the "Webhook URL not found" text, status 403
\* the "Access denied" text, and (for any other status) body
\* "channel_not_found" the "Channel not found" text and body "invalid_payload"
\* the "Invalid message format" text; the result is success=false and carries
\* nothing of the raw error.
C22_TestConnectionGuidance ==
  TestDeliveryFailed =>
    /\ result.kind = "returned"
    /\ DOMAIN result.value = {"success", "error"}
    /\ result.value.success = FALSE
    /\ result.value.error \in {NotFoundText, AccessDeniedText, ChannelNotFoundText,
                                InvalidFormatText, GenericText}
    /\ \A i \in 1..Len(lastError.message) :
         \A j \in 1..Len(result.value.error) : result.value.error[j] # lastError.message[i]
    /\ lastError.statusCode = 404 => result.value.error = NotFoundText
    /\ lastError.statusCode = 403 => result.value.error = AccessDeniedText
    /\ (lastError.statusCode \notin {403, 404} /\ lastError.responseBody = "channel_not_found")
         => result.value.error = ChannelNotFoundText
    /\ (lastError.statusCode \notin {403, 404} /\ lastError.responseBody = "invalid_payload")
         => result.value.error = InvalidFormatText

C22_Witness ==
  /\ TestDeliveryFailed
  /\ lastError.statusCode = 410
  /\ lastError.responseBody = "channel_not_found"
  /\ result.value.error = ChannelNotFoundText

\* C29: in the test-connection translation the HTTP status goes before the
\* response body: status 404 (or 403) with body "channel_not_found" or
\* "invalid_payload" gives the 404 (or 403) guidance; an API error that is none
\* of the four cases (status 500, a timeout with status 0, ...) gives the
\* generic "Failed to send message to Slack." text.
C29_StatusBeforeBody ==
  TestDeliveryFailed =>
    /\ (lastError.statusCode = 404
        /\ lastError.responseBody \in {"channel_not_found", "invalid_payload"})
         => result.value.error = NotFoundText
    /\ (lastError.statusCode = 403
        /\ lastError.responseBody \in {"channel_not_found", "invalid_payload"})
         => result.value.error = AccessDeniedText
    /\ (lastError.statusCode \notin {403, 404}
        /\ lastError.responseBody \notin {"channel_not_found", "invalid_payload"})
         <=> result.value.error = GenericText

C29_Witness ==
  /\ TestDeliveryFailed
  /\ Len(posts) = 1
  /\ posts[1].answer.status = 404
  /\ posts[1].answer.body = "channel_not_found"
  /\ result.value = [success |-> FALSE, error |-> NotFoundText]

----------------------------------------------------------------------------
(* Properties of one sendMessage call: sequencing *)

\* C23: during one sendMessage call at most one request is in flight; a request
\* is in flight only while the call waits for it; attempt k+1 is started only
\* after attempts 0..k have completed and their backoff waits have been slept;
\* and the attempt in flight has its own timeout timer, no other timer pending.
C23_OneRequestAtATime ==
  /\ inflight \in {0, 1}
  /\ inflight = 1 <=> sendPc = "request"
  /\ sendPc = "request" =>
       /\ Len(posts) = attempt
       /\ Len(waits) = attempt
       /\ timers = {attempt}
       /\ \A i \in 1..Len(posts) : posts[i].error # NoError
  /\ sendPc = "sleeping" => (inflight = 0 /\ timers = {} /\ Len(posts) = attempt + 1)
  /\ Len(posts) + inflight <= attempt + 1

C23_Witness ==
  /\ sendPc = "request"
  /\ attempt = 2
  /\ inflight = 1
  /\ Len(posts) = 2
  /\ posts[1].answer = AbortFailure
  /\ waits = <<1000, 2000>>
  /\ timers = {2}

----------------------------------------------------------------------------
(* Properties of two concurrent invocations *)

\* The number of POSTs of the invocation `r` that the webhook accepted.
Accepted(r) ==
  Cardinality({ i \in 1..Len(r.posts) : GoodResponse(r.posts[i].answer) })

\* The invocation `r` has gone through its own pipeline with its own client and
\* its own attempt counter, and its result follows from what it saw itself.
OwnPipeline(r) ==
  /\ \A i \in 1..Len(r.log) : \E k \in 1..Len(DocumentPipeline) : DocumentPipeline[k] = r.log[i]
  /\ \A i, j \in 1..Len(r.log) : i < j => StepIndex(r.log[i]) < StepIndex(r.log[j])
  /\ IsSome(r.client) => r.client[1] = NewSlackClient(config.webhookUrl, <<>>)
  /\ r.sendPc = "idle" => (r.attempt = 0 /\ r.posts = <<>>)
  /\ r.sendPc \in {"loop", "request"} => Len(r.posts) = r.attempt
  /\ r.sendPc = "sleeping" => Len(r.posts) = r.attempt + 1
  /\ Len(r.posts) + r.inflight <= DEFAULT_RETRIES + 1
  /\ \A k \in 1..Len(r.waits) : r.waits[k] = DEFAULT_RETRY_DELAY * 2^(k - 1)
  /\ \A i \in 1..Len(r.posts) : GoodResponse(r.posts[i].answer) => i = Len(r.posts)
  /\ (r.pc = "done" /\ \E i \in 1..Len(r.log) : r.log[i] = "sendMessage") =>
       /\ r.posts # <<>>
       /\ r.result.kind = "returned"
       /\ r.result.value.documentId = r.document[1].id
       /\ r.result.value.success = (Accepted(r) = 1)
       /\ r.result.value.success = GoodResponse(r.posts[Len(r.posts)].answer)
       /\ ~r.result.value.success =>
            /\ r.result.value.error =
                 <<"Failed to send Slack notification: ">> \o r.posts[Len(r.posts)].error.message
            /\ \/ Len(r.posts) = DEFAULT_RETRIES + 1
               \/ r.posts[Len(r.posts)].error.statusCode \in 400..499

\* C24: of two invocations of a handler for the same installation and the same
\* document, interleaved in any way, each runs its own pipeline with its own
\* SlackClient and its own attempt counter starting at 0; the result and the
\* number of attempts of each follow from what that invocation itself saw; and
\* nothing deduplicates them: when both succeed two messages were accepted.
C24_IndependentInvocations ==
  IsSome(peer) =>
    /\ OwnPipeline(Running)
    /\ OwnPipeline(peer[1])
    /\ (pc = "done" /\ peer[1].pc = "done" /\ result.kind = "returned"
        /\ peer[1].result.kind = "returned"
        /\ result.value.success /\ peer[1].result.value.success
        /\ ~HasField(result.value, "skipped") /\ ~HasField(peer[1].result.value, "skipped"))
         => Accepted(Running) + Accepted(peer[1]) = 2

C24_Witness ==
  /\ IsSome(peer)
  /\ pc = "done"
  /\ peer[1].pc = "done"
  /\ result.value = [success |-> TRUE, documentId |-> "doc-1",
                     vendorName |-> Some(AcmeCorp), amount |-> Some(150)]
  /\ peer[1].result.value = result.value
  /\ Len(posts) = 3
  /\ Len(peer[1].posts) = 1
  /\ Accepted(Running) + Accepted(peer[1]) = 2

\* The response is HTTP-ok but its body is not "ok".
OkStatusBadBody(a) == "status" \in DOMAIN a /\ a.status \in 200..299 /\ a.body # "ok"

\* C26: in sendMessage an attempt answered 2xx with a body other than "ok"
\* fails with a SlackApiError of that status and is retried like any retryable
\* failure: while attempts remain the backoff wait follows and the call goes
\* on, and only the attempt number retries+1 ends the call with that error.
C26_BadBodyIsRetried ==
  (Sending /\ Retries >= 0) =>
    \A i \in 1..Len(posts) :
      OkStatusBadBody(posts[i].answer) =>
        /\ posts[i].error.name = "SlackApiError"
        /\ posts[i].error.statusCode = posts[i].answer.status
        /\ posts[i].error.responseBody = posts[i].answer.body
        /\ i <= Retries + 1
        /\ IF i <= Retries
           THEN /\ Len(waits) >= i
                /\ waits[i] = BackoffDelay(TheClient.options.retryDelay, i - 1)
                /\ (sendPc = "threw" \/ sendPc = "returned") => Len(posts) > i
           ELSE /\ i = Len(posts)
                /\ Len(waits) < i
                /\ inflight = 0
                /\ sendPc \in {"loop", "threw"}
                /\ lastError = posts[i].error
                /\ (caller = "direct" /\ pc = "done") => result = Raised(posts[i].error)

C26_Witness ==
  /\ caller \in Handlers
  /\ Sending
  /\ Retries = DEFAULT_RETRIES
  /\ Len(posts) = 3
  /\ \A i \in 1..3 : OkStatusBadBody(posts[i].answer)
  /\ waits = <<1000, 2000>>
  /\ sendPc = "threw"

\* C27: every result a handler returns has a consistent shape: a skipped
\* result is a success with a reason and no error; a failure has a non-empty
\* error and no skipped flag; a success without the skipped flag is returned
\* only after a sendMessage call of the same invocation has returned normally.
C27_ResultShape ==
  (caller \in Handlers /\ Done /\ result.kind = "returned") =>
    LET r == result.value
    IN /\ HasField(r, "success")
       /\ HasField(r, "skipped") =>
            /\ r.skipped = TRUE
            /\ r.success = TRUE
            /\ HasField(r, "reason") /\ r.reason # <<>>
            /\ ~HasField(r, "error")
       /\ r.success = FALSE =>
            /\ HasField(r, "error") /\ r.error # <<>>
            /\ ~HasField(r, "skipped")
       /\ (r.success = TRUE /\ ~HasField(r, "skipped")) =>
            /\ Called("sendMessage")
            /\ sendPc = "returned"
            /\ Len(posts) >= 1
            /\ GoodResponse(posts[Len(posts)].answer)

C27_Witness ==
  /\ caller = "exportCompleted"
  /\ Done
  /\ result.kind = "returned"
  /\ result.value.success = TRUE
  /\ ~HasField(result.value, "skipped")
  /\ Len(posts) = 2
  /\ sendPc = "returned"

\* The calls that fetch the event's document, collection or export.
PrimaryFetches ==
  TimesCalled("getDocument") + TimesCalled("listDocuments") + TimesCalled("getExport")

\* C28: a handler invocation calls sendMessage at most once, fetches its
\* primary object at most once and the company at most once; with the default
\* policy it makes at most 3 POSTs, and a POST answered ok with body "ok" is
\* the last POST of the invocation.
C28_AtMostOneDelivery ==
  caller \in Handlers =>
    /\ TimesCalled("sendMessage") <= 1
    /\ PrimaryFetches <= 1
    /\ TimesCalled("listCompanies") <= 1
    /\ Attempts <= DEFAULT_RETRIES + 1
    /\ Attempts > 0 => Called("sendMessage")
    /\ \A i \in 1..Len(posts) :
         GoodResponse(posts[i].answer) => (i = Len(posts) /\ inflight = 0)
    /\ Cardinality({ i \in 1..Len(posts) : GoodResponse(posts[i].answer) }) <= 1

C28_Witness ==
  /\ caller = "documentProcessed"
  /\ Done
  /\ TimesCalled("getDocument") = 1
  /\ TimesCalled("listCompanies") = 1
  /\ TimesCalled("sendMessage") = 1
  /\ Len(posts) = DEFAULT_RETRIES + 1
  /\ GoodResponse(posts[Len(posts)].answer)

----------------------------------------------------------------------------
(* Filter entries that are empty once trimmed *)

\* The configured list `field` has an entry that is empty after trimming.
BlankEntry(field) ==
  /\ HasField(config, field)
  /\ \E k \in 1..Len(config[field]) : trim(config[field][k]) = <<>>

\* The vendor check does not reject when its filter has a blank entry.
BlankVendorEntryPassesAll ==
  (Answered("checkVendorFilter") /\ BlankEntry("vendorFilter")) =>
    result.value = [shouldNotify |-> TRUE]

\* C30 as stated: a vendor (or category) filter with an entry that is empty
\* after trimming matches every document that has a vendor (or category name),
\* and with such an entry the check never rejects any document.
C30_Original ==
  /\ BlankVendorEntryPassesAll
  /\ (Answered("checkCategoryFilter") /\ BlankEntry("categoryFilter")) =>
       result.value = [shouldNotify |-> TRUE]

\* C30 amended: with a blank entry the vendor check never rejects, and the
\* category check never rejects a document that has a category name; a
\* document that has a category id but no name gains nothing from the blank
\* entry: it passes only when some entry equals its id, and is rejected with
\* the id in the reason otherwise.
C30_BlankEntryMatchesNamed ==
  /\ BlankVendorEntryPassesAll
  /\ (Answered("checkCategoryFilter") /\ BlankEntry("categoryFilter")) =>
       IF CategoryNameGiven \/ ~CategoryIdGiven
       THEN result.value = [shouldNotify |-> TRUE]
       ELSE IF \E k \in 1..Len(config.categoryFilter) :
                 toLowerCase(trim(config.categoryFilter[k])) = toLowerCase(CategoryIdText)
       THEN result.value = [shouldNotify |-> TRUE]
       ELSE result.value = [shouldNotify |-> FALSE,
                            reason |-> <<"category_not_in_filter:">> \o CategoryIdText]

C30_Witness ==
  /\ Answered("checkCategoryFilter")
  /\ config = [categoryFilter |-> << <<" ">> >>]
  /\ CategoryNameGiven /\ CategoryNameText = Travel
  /\ result.value = [shouldNotify |-> TRUE]

----------------------------------------------------------------------------
(* Properties of buildDocumentProcessedBlocks, called directly *)

\* The due-date annotations among the blocks returned.
DueWarnings ==
  { i \in 1..Len(result.value) :
      /\ result.value[i].type = "context"
      /\ result.value[i].text[1] \in {":warning: *Due today!*", ":warning: Due in "} }

\* The whole number of calendar days from today to the due date.
DaysToDue == input.document.dueDate[1] - Today

\* C25 as stated: the document-processed message carries a due-date warning if
\* and only if the document has a due date and the whole number of days from
\* today to the due date (both at midnight) is in 0..7; it is there for 0 and 7
\* days, not for 8 or -1, and for 0 days it reads "Due today!".
C25_Original ==
  Answered("buildDocumentProcessedBlocks") =>
    /\ Cardinality(DueWarnings) <= 1
    /\ DueWarnings # {} <=>
         (IsSome(input.document.dueDate) /\ DaysToDue \in 0..WarningDays)
    /\ \A i \in DueWarnings :
         (result.value[i].text = <<":warning: *Due today!*">>) <=> DaysToDue = 0

====
